---- MODULE Spec2Model ----
(***************************************************************************)
(* MetaScript: the compile-time macro expander (metascript/macros.py) and  *)
(* the two code generators that run it (transpiler_py.py,                  *)
(* transpiler_js.py).  Trees are records tagged with the class name in     *)
(* the field "kind"; Python lists are sequences; None is NoneVal; an       *)
(* optional list (If.orelse) is NoneVal or ListVal(items).                 *)
(***************************************************************************)
EXTENDS Integers, Sequences, FiniteSets, TLC

(***************************************************************************)
(* Tree model: metascript/ast.py                                           *)
(***************************************************************************)
NoneVal == [kind |-> "None"]
ListVal(items) == [kind |-> "list", items |-> items]

Program(statements) == [kind |-> "Program", statements |-> statements]
Say(text) == [kind |-> "Say", text |-> text]
PrintStmt(text) == [kind |-> "Print", text |-> text]
Assign(name, value) == [kind |-> "Assign", name |-> name, value |-> value]
If(cond, body, orelse) == [kind |-> "If", cond |-> cond, body |-> body, orelse |-> orelse]
While(cond, body) == [kind |-> "While", cond |-> cond, body |-> body]
ForLoop(var, end, body) == [kind |-> "ForLoop", var |-> var, end |-> end, body |-> body]
FunctionDef(name, params, body, is_async) ==
    [kind |-> "FunctionDef", name |-> name, params |-> params, body |-> body, is_async |-> is_async]
Return(value) == [kind |-> "Return", value |-> value]
DoBlock(body) == [kind |-> "DoBlock", body |-> body]
AgentCall(agent, payload) == [kind |-> "AgentCall", agent |-> agent, payload |-> payload]
MatchCase(pattern, body) == [kind |-> "MatchCase", pattern |-> pattern, body |-> body]
Match(subject, cases) == [kind |-> "Match", subject |-> subject, cases |-> cases]
WildcardPattern == [kind |-> "WildcardPattern"]
NamePattern(name) == [kind |-> "NamePattern", name |-> name]
LiteralPattern(value) == [kind |-> "LiteralPattern", value |-> value]
ListPattern(elements) == [kind |-> "ListPattern", elements |-> elements]
FunctionCall(name, args) == [kind |-> "FunctionCall", name |-> name, args |-> args]
BinaryOp(op, left, right) == [kind |-> "BinaryOp", op |-> op, left |-> left, right |-> right]
UnaryOp(op, operand) == [kind |-> "UnaryOp", op |-> op, operand |-> operand]
Await(expr) == [kind |-> "Await", expr |-> expr]
ListLiteral(elements) == [kind |-> "ListLiteral", elements |-> elements]
LiteralString(value) == [kind |-> "LiteralString", value |-> value]
LiteralInt(value) == [kind |-> "LiteralInt", value |-> value]
NameExpr(id) == [kind |-> "NameExpr", id |-> id]
MacroDef(name, params, body) == [kind |-> "MacroDef", name |-> name, params |-> params, body |-> body]
MacroCall(name, args) == [kind |-> "MacroCall", name |-> name, args |-> args]

\* Python truthiness of an optional list: None and [] are both falsy.
Truthy(optlist) == optlist.kind = "list" /\ Len(optlist.items) > 0

\* A node that is an object of the caller's tree carries the field "obj",
\* the identity of that object; a node built by a constructor above is a new
\* object and carries none.  A node handed on as it is keeps its identity.
RECURSIVE DeepCopy(_)
DeepCopyAll(nodes) == [k \in DOMAIN nodes |-> DeepCopy(nodes[k])]

\* copy.deepcopy: a structurally equal tree of new objects.
DeepCopy(node) ==
    CASE node.kind = "None" -> NoneVal
      [] node.kind = "list" -> ListVal(DeepCopyAll(node.items))
      [] node.kind = "Program" -> Program(DeepCopyAll(node.statements))
      [] node.kind = "Say" -> Say(DeepCopy(node.text))
      [] node.kind = "Print" -> PrintStmt(DeepCopy(node.text))
      [] node.kind = "Assign" -> Assign(node.name, DeepCopy(node.value))
      [] node.kind = "If" ->
            If(DeepCopy(node.cond), DeepCopyAll(node.body), DeepCopy(node.orelse))
      [] node.kind = "While" -> While(DeepCopy(node.cond), DeepCopyAll(node.body))
      [] node.kind = "ForLoop" -> ForLoop(node.var, DeepCopy(node.end), DeepCopyAll(node.body))
      [] node.kind = "FunctionDef" ->
            FunctionDef(node.name, node.params, DeepCopyAll(node.body), node.is_async)
      [] node.kind = "Return" -> Return(DeepCopy(node.value))
      [] node.kind = "DoBlock" -> DoBlock(DeepCopyAll(node.body))
      [] node.kind = "AgentCall" -> AgentCall(node.agent, node.payload)
      [] node.kind = "MatchCase" -> MatchCase(DeepCopy(node.pattern), DeepCopyAll(node.body))
      [] node.kind = "Match" -> Match(DeepCopy(node.subject), DeepCopyAll(node.cases))
      [] node.kind = "WildcardPattern" -> WildcardPattern
      [] node.kind = "NamePattern" -> NamePattern(node.name)
      [] node.kind = "LiteralPattern" -> LiteralPattern(DeepCopy(node.value))
      [] node.kind = "ListPattern" -> ListPattern(DeepCopyAll(node.elements))
      [] node.kind = "FunctionCall" -> FunctionCall(node.name, DeepCopyAll(node.args))
      [] node.kind = "BinaryOp" -> BinaryOp(node.op, DeepCopy(node.left), DeepCopy(node.right))
      [] node.kind = "UnaryOp" -> UnaryOp(node.op, DeepCopy(node.operand))
      [] node.kind = "Await" -> Await(DeepCopy(node.expr))
      [] node.kind = "ListLiteral" -> ListLiteral(DeepCopyAll(node.elements))
      [] node.kind = "LiteralString" -> LiteralString(node.value)
      [] node.kind = "LiteralInt" -> LiteralInt(node.value)
      [] node.kind = "NameExpr" -> NameExpr(node.id)
      [] node.kind = "MacroDef" -> MacroDef(node.name, node.params, DeepCopyAll(node.body))
      [] node.kind = "MacroCall" -> MacroCall(node.name, DeepCopyAll(node.args))

SeqToSet(s) == {s[k] : k \in DOMAIN s}

(***************************************************************************)
(* macros.py: _substitute_expr, _substitute_node                           *)
(***************************************************************************)
\* an argument that is itself looked up in the mapping before it is
\* inserted.
InsertedArgumentResubstituted(mapping, id) ==
    IF mapping[id].kind = "NameExpr" /\ mapping[id].id \in DOMAIN mapping
    THEN DeepCopy(mapping[mapping[id].id])
    ELSE DeepCopy(mapping[id])

\* return copy.deepcopy(mapping[expr.id]): the copy is returned as it is
InsertedArgument(mapping, id) == DeepCopy(mapping[id])

RECURSIVE SubstituteExpr(_, _)
SubstituteExpr(expr, mapping) ==
    CASE expr.kind = "None" -> NoneVal
      [] expr.kind = "NameExpr" ->
            IF expr.id \in DOMAIN mapping THEN InsertedArgument(mapping, expr.id)
            ELSE NameExpr(expr.id)
      [] expr.kind = "LiteralString" -> LiteralString(expr.value)
      [] expr.kind = "LiteralInt" -> LiteralInt(expr.value)
      [] expr.kind = "ListLiteral" ->
            ListLiteral([k \in DOMAIN expr.elements |-> SubstituteExpr(expr.elements[k], mapping)])
      [] expr.kind = "FunctionCall" ->
            FunctionCall(expr.name, [k \in DOMAIN expr.args |-> SubstituteExpr(expr.args[k], mapping)])
      [] expr.kind = "BinaryOp" ->
            BinaryOp(expr.op, SubstituteExpr(expr.left, mapping), SubstituteExpr(expr.right, mapping))
      [] expr.kind = "UnaryOp" -> UnaryOp(expr.op, SubstituteExpr(expr.operand, mapping))
      [] expr.kind = "Await" -> Await(SubstituteExpr(expr.expr, mapping))
      [] OTHER -> DeepCopy(expr)

RECURSIVE SubstituteNode(_, _)
SubstituteNode(node, mapping) ==
    CASE node.kind = "None" -> NoneVal
      [] node.kind = "Say" -> Say(SubstituteExpr(node.text, mapping))
      [] node.kind = "Print" -> PrintStmt(SubstituteExpr(node.text, mapping))
      [] node.kind = "Assign" -> Assign(node.name, SubstituteExpr(node.value, mapping))
      [] node.kind = "Return" -> Return(SubstituteExpr(node.value, mapping))
      [] node.kind = "FunctionCall" ->
            FunctionCall(node.name, [k \in DOMAIN node.args |-> SubstituteExpr(node.args[k], mapping)])
      [] node.kind = "BinaryOp" ->
            BinaryOp(node.op, SubstituteExpr(node.left, mapping), SubstituteExpr(node.right, mapping))
      [] node.kind = "ListLiteral" ->
            ListLiteral([k \in DOMAIN node.elements |-> SubstituteExpr(node.elements[k], mapping)])
      [] node.kind = "If" ->
            If(SubstituteExpr(node.cond, mapping),
               [k \in DOMAIN node.body |-> SubstituteNode(node.body[k], mapping)],
               IF Truthy(node.orelse)
               THEN ListVal([k \in DOMAIN node.orelse.items |-> SubstituteNode(node.orelse.items[k], mapping)])
               ELSE NoneVal)
      [] node.kind = "While" ->
            While(SubstituteExpr(node.cond, mapping),
                  [k \in DOMAIN node.body |-> SubstituteNode(node.body[k], mapping)])
      [] node.kind = "ForLoop" ->
            ForLoop(node.var, SubstituteExpr(node.end, mapping),
                    [k \in DOMAIN node.body |-> SubstituteNode(node.body[k], mapping)])
      [] node.kind = "FunctionDef" ->
            FunctionDef(node.name, node.params,
                        [k \in DOMAIN node.body |-> SubstituteNode(node.body[k], mapping)],
                        node.is_async)
      [] node.kind = "DoBlock" ->
            DoBlock([k \in DOMAIN node.body |-> SubstituteNode(node.body[k], mapping)])
      [] node.kind = "MatchCase" ->
            MatchCase(node.pattern, [k \in DOMAIN node.body |-> SubstituteNode(node.body[k], mapping)])
      [] node.kind = "Match" ->
            Match(SubstituteExpr(node.subject, mapping),
                  [k \in DOMAIN node.cases |-> SubstituteNode(node.cases[k], mapping)])
      [] node.kind = "AgentCall" -> AgentCall(node.agent, node.payload)
      [] node.kind = "MacroCall" ->
            MacroCall(node.name, [k \in DOMAIN node.args |-> SubstituteExpr(node.args[k], mapping)])
      [] node.kind = "MacroDef" ->
            MacroDef(node.name, node.params,
                     [k \in DOMAIN node.body |-> SubstituteNode(node.body[k], mapping)])
      [] OTHER -> DeepCopy(node)

(***************************************************************************)
(* macros.py: _fresh_name                                                  *)
(***************************************************************************)
\* The fresh-name rule with the increment left out: every name gets the
\* same number.
FreshNameNoIncrement(base, counter) ==
    [counter |-> counter,
     name |-> "__ms_macro_" \o base \o "_" \o ToString(counter + 1)]

\* counter[0] += 1; return f"__ms_macro_{base}_{counter[0]}"
FreshName(base, counter) ==
    [counter |-> counter + 1,
     name |-> "__ms_macro_" \o base \o "_" \o ToString(counter + 1)]

(***************************************************************************)
(* macros.py: _collect_local_bindings                                      *)
(***************************************************************************)
PatternNames(pat) ==
    CASE pat.kind = "NamePattern" -> {pat.name}
      [] pat.kind = "ListPattern" ->
            {pat.elements[k].name : k \in {j \in DOMAIN pat.elements : pat.elements[j].kind = "NamePattern"}}
      [] OTHER -> {}

RECURSIVE CollectLocalBindings(_, _)
CollectAll(stmts, acc) ==
    acc \cup UNION {CollectLocalBindings(stmts[k], {}) : k \in DOMAIN stmts}

CollectLocalBindings(node, acc) ==
    CASE node.kind = "Assign" -> acc \cup {node.name}
      [] node.kind = "FunctionDef" ->
            CollectAll(node.body, acc \cup {node.name} \cup SeqToSet(node.params))
      [] node.kind = "ForLoop" -> CollectAll(node.body, acc \cup {node.var})
      [] node.kind = "MatchCase" -> acc \cup PatternNames(node.pattern)
      [] node.kind = "DoBlock" -> CollectAll(node.body, acc)
      [] node.kind = "If" ->
            \* getattr(node, 'body') then getattr(node, 'orelse')
            CollectAll(IF node.orelse.kind = "list" THEN node.orelse.items ELSE <<>>,
                       CollectAll(node.body, acc))
      [] node.kind = "While" -> CollectAll(node.body, acc)
      \* a Match has neither 'body' nor 'orelse': its cases are not visited
      [] node.kind = "Match" -> acc
      [] OTHER -> acc

(***************************************************************************)
(* macros.py: _rename_bound_identifiers                                    *)
(***************************************************************************)
Renamed(name, rename_map, params) ==
    IF name \in DOMAIN rename_map /\ name \notin params THEN rename_map[name] ELSE name

RenamePattern(pat, rename_map, params) ==
    CASE pat.kind = "NamePattern" -> NamePattern(Renamed(pat.name, rename_map, params))
      [] pat.kind = "ListPattern" ->
            ListPattern([k \in DOMAIN pat.elements |->
                IF pat.elements[k].kind = "NamePattern"
                THEN NamePattern(Renamed(pat.elements[k].name, rename_map, params))
                ELSE pat.elements[k]])
      [] OTHER -> pat

RECURSIVE RenameBoundIdentifiers(_, _, _)
RenameBoundIdentifiers(node, rename_map, params) ==
    LET R(n) == RenameBoundIdentifiers(n, rename_map, params)
        RL(s) == [k \in DOMAIN s |-> RenameBoundIdentifiers(s[k], rename_map, params)]
    IN
    CASE node.kind = "None" -> node
      [] node.kind = "NameExpr" ->
            IF node.id \in DOMAIN rename_map /\ node.id \notin params
            THEN NameExpr(rename_map[node.id]) ELSE node
      [] node.kind \in {"LiteralString", "LiteralInt"} -> node
      [] node.kind = "ListLiteral" -> ListLiteral(RL(node.elements))
      [] node.kind = "FunctionCall" -> FunctionCall(node.name, RL(node.args))
      [] node.kind = "BinaryOp" -> BinaryOp(node.op, R(node.left), R(node.right))
      [] node.kind = "Await" -> Await(R(node.expr))
      [] node.kind = "Assign" -> Assign(Renamed(node.name, rename_map, params), R(node.value))
      [] node.kind = "Say" -> Say(R(node.text))
      [] node.kind = "Print" -> PrintStmt(R(node.text))
      [] node.kind = "Return" -> Return(R(node.value))
      [] node.kind = "FunctionDef" ->
            FunctionDef(Renamed(node.name, rename_map, params),
                        \* rename_map.get(p, p): the macro's params are not excluded here
                        [k \in DOMAIN node.params |->
                            IF node.params[k] \in DOMAIN rename_map
                            THEN rename_map[node.params[k]] ELSE node.params[k]],
                        RL(node.body), node.is_async)
      [] node.kind = "ForLoop" ->
            ForLoop(Renamed(node.var, rename_map, params), R(node.end), RL(node.body))
      [] node.kind = "MatchCase" ->
            MatchCase(RenamePattern(node.pattern, rename_map, params), RL(node.body))
      [] node.kind = "Match" -> Match(R(node.subject), RL(node.cases))
      [] node.kind = "If" ->
            If(R(node.cond), RL(node.body),
               IF Truthy(node.orelse) THEN ListVal(RL(node.orelse.items)) ELSE NoneVal)
      [] node.kind = "While" -> While(R(node.cond), RL(node.body))
      [] node.kind = "DoBlock" -> DoBlock(RL(node.body))
      [] node.kind = "MacroCall" -> MacroCall(node.name, RL(node.args))
      [] OTHER -> DeepCopy(node)

(***************************************************************************)
(* macros.py: expand_macros.  The state one invocation owns is threaded    *)
(* through the helpers as the record st:                                   *)
(*   uid        the fresh-name counter (uid[0])                            *)
(*   env_stack  the scope stack, a sequence of frames name -> MacroDef     *)
(*   status     "ok", or the exception being propagated                    *)
(*   names      history: every name make_fresh has returned, in order      *)
(*   log        history: every registration, lookup and splice             *)
(***************************************************************************)
\* Bound on the nesting of macro expansions, standing for the interpreter's
\* recursion limit (RecursionError).
RecursionLimit == 4

EmptyFrame == <<>>

NewState == [uid |-> 0, env_stack |-> <<EmptyFrame>>, status |-> "ok",
             names |-> <<>>, log |-> <<>>]

\* for nm in bound_names: a set of str is iterated in hash order, which
\* PYTHONHASHSEED changes from one process to the next.  ord lists the
\* identifiers in the order the running process iterates them.
SetOrder(S, ord) == SelectSeq(ord, LAMBDA n : n \in S)

\* lookup scanning the frames outermost first.
RECURSIVE LookupOutermostFirst(_, _, _)
LookupOutermostFirst(name, env_stack, k) ==
    IF k = 0 THEN NoneVal
    ELSE LET j == Len(env_stack) - k + 1 IN
         IF name \in DOMAIN env_stack[j] THEN env_stack[j][name]
         ELSE LookupOutermostFirst(name, env_stack, k - 1)

\* for env in reversed(env_stack): if name in env: return env[name]
\* k is the number of frames still to scan, innermost first.
RECURSIVE LookupFrom(_, _, _)
LookupFrom(name, env_stack, k) ==
    IF k = 0 THEN NoneVal
    ELSE IF name \in DOMAIN env_stack[k] THEN env_stack[k][name]
         ELSE LookupFrom(name, env_stack, k - 1)

\* a lookup that sees the frames of the top level only, whatever blocks
\* are open at the call.
LookupAtTopLevel(name, env_stack) ==
    LookupFrom(name, env_stack, IF Len(env_stack) < 2 THEN Len(env_stack) ELSE 2)

LookupMacro(name, env_stack) == LookupFrom(name, env_stack, Len(env_stack))

\* a registration that lands in the global frame instead of the block's.
RegisterGlobal(env_stack, s) ==
    [env_stack EXCEPT ![1] = (s.name :> s) @@ @]

\* local_env[s.name] = s, local_env being the frame on top of the stack
Register(env_stack, s) ==
    [env_stack EXCEPT ![Len(env_stack)] = (s.name :> s) @@ @]

RegisterSt(st, s) ==
    LET after == Register(st.env_stack, s) IN
    [st EXCEPT !.env_stack = after,
               !.log = Append(@, [ev |-> "def", name |-> s.name, macro |-> s,
                                  before |-> st.env_stack, after |-> after])]

\* rename_map[nm] = make_fresh(nm) for the bound names that are not params
RECURSIVE RenameLoop(_, _, _, _, _)
RenameLoop(order, k, params, rename_map, st) ==
    IF k > Len(order) THEN [rename_map |-> rename_map, st |-> st]
    ELSE IF order[k] \in params THEN RenameLoop(order, k + 1, params, rename_map, st)
    ELSE LET f == FreshName(order[k], st.uid) IN
         RenameLoop(order, k + 1, params, (order[k] :> f.name) @@ rename_map,
                    [st EXCEPT !.uid = f.counter, !.names = Append(@, f.name)])

\* the index of the last occurrence of p in params (a later duplicate
\* overwrites mapping[pname])
LastIndex(params, p) ==
    CHOOSE i \in DOMAIN params :
        params[i] = p /\ \A j \in DOMAIN params : params[j] = p => j <= i

\* a mapping that gives None to a parameter without an argument.
MakeMappingOrNone(params, args) ==
    [p \in SeqToSet(params) |->
        IF LastIndex(params, p) <= Len(args) THEN args[LastIndex(params, p)]
        ELSE NoneVal]

MakeMapping(params, args) ==
    [p \in SeqToSet(params) |->
        IF LastIndex(params, p) <= Len(args) THEN args[LastIndex(params, p)]
        ELSE NameExpr(p)]

Raise(st, what) == [st EXCEPT !.status = what]

\* a guard that refuses every expansion nested in another one.
StackExhaustedWhenNested(depth) == depth >= 1

\* whether the interpreter's stack has room for one more nested expand_node
StackExhausted(depth) == depth >= RecursionLimit

\* a depth guard that abandons the expansion and lets the caller go on.
AbandonAtRecursionLimit(st) == st

\* the nested expand_node(sub, env_stack) calls exhaust the interpreter's
\* stack: RecursionError propagates out of expand_macros.
RaiseRecursionError(st) == Raise(st, "recursion")

RECURSIVE ExpandNode(_, _, _, _)
RECURSIVE ExpandStmtList(_, _, _, _)
RECURSIVE StmtLoop(_, _, _, _, _, _)
RECURSIVE BodyLoop(_, _, _, _, _, _, _)
RECURSIVE CaseLoop(_, _, _, _, _, _)

\* an iteration that leaves a placeholder where an expansion is empty.
StmtIterPlaceholder(s, out, st, depth, ord) ==
    IF s.kind = "MacroDef"
    THEN [out |-> out, st |-> RegisterSt(st, s)]
    ELSE LET Splice(r) == [out |-> IF r.st.status # "ok" THEN out
                                   ELSE IF r.res = <<>> THEN Append(out, NoneVal)
                                   ELSE out \o r.res,
                           st |-> r.st]
         IN Splice(ExpandNode(s, st, depth, ord))

\* one iteration of the for loop of expand_stmt_list on statement s
StmtIter(s, out, st, depth, ord) ==
    IF s.kind = "MacroDef"
    THEN [out |-> out, st |-> RegisterSt(st, s)]
    ELSE LET Splice(r) == [out |-> IF r.st.status = "ok" THEN out \o r.res ELSE out,
                           st |-> r.st]
         IN Splice(ExpandNode(s, st, depth, ord))

StmtLoop(stmts, k, out, st, depth, ord) ==
    IF k > Len(stmts) \/ st.status # "ok" THEN [out |-> out, st |-> st]
    ELSE LET Continue(r) == StmtLoop(stmts, k + 1, r.out, r.st, depth, ord)
         IN Continue(StmtIter(stmts[k], out, st, depth, ord))

\* env_stack.append(local_env)
PushFrame(st) == [st EXCEPT !.env_stack = Append(@, EmptyFrame)]

\* finally: env_stack.pop()
PopFrame(st) == [st EXCEPT !.env_stack = SubSeq(@, 1, Len(@) - 1)]

\* history only: the expansion of a block begins / is left
EnterBlock(st) == [st EXCEPT !.log = Append(@, [ev |-> "enter"])]
ExitBlock(st) == [st EXCEPT !.log = Append(@, [ev |-> "exit"])]

ExpandStmtList(stmts, st, depth, ord) ==
    LET Leave(r) == [out |-> r.out, st |-> ExitBlock(PopFrame(r.st))]
    IN Leave(StmtLoop(stmts, 1, <<>>, PushFrame(EnterBlock(st)), depth, ord))

\* for b in renamed_body: substitute, expand, splice
BodyLoop(body, k, expanded, mapping, st, depth, ord) ==
    IF k > Len(body) \/ st.status # "ok" THEN [res |-> expanded, st |-> st]
    ELSE LET sub == SubstituteNode(body[k], mapping)
             Continue(r) ==
                 BodyLoop(body, k + 1, IF r.st.status = "ok" THEN expanded \o r.res ELSE expanded,
                          mapping, r.st, depth, ord)
         IN Continue(ExpandNode(sub, st, depth, ord))

\* for c in node.cases: cases.append(MatchCase(c.pattern, expand_stmt_list(c.body)))
CaseLoop(cases, k, acc, st, depth, ord) ==
    IF k > Len(cases) \/ st.status # "ok" THEN [res |-> acc, st |-> st]
    ELSE LET Continue(r) ==
                 CaseLoop(cases, k + 1, Append(acc, MatchCase(cases[k].pattern, r.out)),
                          r.st, depth, ord)
         IN Continue(ExpandStmtList(cases[k].body, st, depth, ord))

ExpandMacroCall(node, st, depth, ord) ==
    LET macro == LookupMacro(node.name, st.env_stack)
        st1 == [st EXCEPT !.log = Append(@, [ev |-> "call", name |-> node.name,
                                             macro |-> macro, stack |-> st.env_stack])]
    IN
    IF macro = NoneVal THEN [res |-> <<>>, st |-> Raise(st1, "undefined")]
    ELSE IF StackExhausted(depth) THEN [res |-> <<>>, st |-> RaiseRecursionError(st1)]
    ELSE
      LET bound_names == CollectAll(macro.body, {})
          params == SeqToSet(macro.params)
          mapping == MakeMapping(macro.params, node.args)
          \* history: what the call was replaced by
          Spliced(rm, r) ==
              IF r.st.status # "ok" THEN r
              ELSE [r EXCEPT !.st.log = Append(@, [ev |-> "splice", name |-> node.name,
                                                   macro |-> macro, args |-> node.args,
                                                   rename_map |-> rm.rename_map,
                                                   res |-> r.res])]
          Splice(rm) ==
              LET renamed_body == [k \in DOMAIN macro.body |->
                      RenameBoundIdentifiers(DeepCopy(macro.body[k]), rm.rename_map, params)]
              IN Spliced(rm, BodyLoop(renamed_body, 1, <<>>, mapping, rm.st, depth + 1, ord))
      IN Splice(RenameLoop(SetOrder(bound_names, ord), 1, params, <<>>, st1))

\* expand_node returns a list for a macro call and one node otherwise; both
\* callers splice a list and append a node, so the result is given as the
\* sequence of statements to splice.
ExpandNode(node, st, depth, ord) ==
    CASE node.kind = "MacroCall" -> ExpandMacroCall(node, st, depth, ord)
      [] node.kind = "FunctionDef" ->
            LET Wrap(r) == [res |-> <<FunctionDef(node.name, node.params, r.out, node.is_async)>>,
                            st |-> r.st]
            IN Wrap(ExpandStmtList(node.body, st, depth, ord))
      [] node.kind = "DoBlock" ->
            LET Wrap(r) == [res |-> <<DoBlock(r.out)>>, st |-> r.st]
            IN Wrap(ExpandStmtList(node.body, st, depth, ord))
      [] node.kind = "If" ->
            LET cond == SubstituteExpr(node.cond, <<>>)
                WithBody(rb) ==
                    LET WithElse(ro) ==
                            [res |-> <<If(cond, rb.out,
                                          IF Truthy(node.orelse) THEN ListVal(ro.out) ELSE NoneVal)>>,
                             st |-> ro.st]
                    IN WithElse(IF Truthy(node.orelse) /\ rb.st.status = "ok"
                                THEN ExpandStmtList(node.orelse.items, rb.st, depth, ord)
                                ELSE [out |-> <<>>, st |-> rb.st])
            IN WithBody(ExpandStmtList(node.body, st, depth, ord))
      [] node.kind = "While" ->
            LET Wrap(r) == [res |-> <<While(SubstituteExpr(node.cond, <<>>), r.out)>>, st |-> r.st]
            IN Wrap(ExpandStmtList(node.body, st, depth, ord))
      [] node.kind = "ForLoop" ->
            LET Wrap(r) == [res |-> <<ForLoop(node.var, SubstituteExpr(node.end, <<>>), r.out)>>,
                            st |-> r.st]
            IN Wrap(ExpandStmtList(node.body, st, depth, ord))
      [] node.kind = "Match" ->
            LET Wrap(r) == [res |-> <<Match(SubstituteExpr(node.subject, <<>>), r.res)>>,
                            st |-> r.st]
            IN Wrap(CaseLoop(node.cases, 1, <<>>, st, depth, ord))
      [] node.kind = "Say" -> [res |-> <<Say(SubstituteExpr(node.text, <<>>))>>, st |-> st]
      [] node.kind = "Print" -> [res |-> <<PrintStmt(SubstituteExpr(node.text, <<>>))>>, st |-> st]
      [] node.kind = "Assign" ->
            [res |-> <<Assign(node.name, SubstituteExpr(node.value, <<>>))>>, st |-> st]
      [] node.kind = "Return" -> [res |-> <<Return(SubstituteExpr(node.value, <<>>))>>, st |-> st]
      [] node.kind = "FunctionCall" ->
            [res |-> <<FunctionCall(node.name,
                          [k \in DOMAIN node.args |-> SubstituteExpr(node.args[k], <<>>)])>>,
             st |-> st]
      [] OTHER -> [res |-> <<DeepCopy(node)>>, st |-> st]

\* expand_macros(program) run to completion in a process whose set
\* iteration order is ord: the Program returned, or NoneVal when it raised.
ExpandMacros(program, ord) ==
    LET Outcome(r) == [status |-> r.st.status,
                       program |-> IF r.st.status = "ok" THEN Program(r.out) ELSE NoneVal,
                       st |-> r.st]
    IN Outcome(ExpandStmtList(program.statements, NewState, 0, ord))

(***************************************************************************)
(* Python str operations used by the parser, the unparser and the code     *)
(* generators.  Positions are 0-based as in the code; a character is a     *)
(* string of length 1; "" stands for None where the code peeks past the    *)
(* end.                                                                    *)
(***************************************************************************)
\* s[i:j] for 0 <= i, 0 <= j: positions past the end are clamped
StrSlice(s, i, j) ==
    LET a == IF i < Len(s) THEN i ELSE Len(s)
        b == IF j < Len(s) THEN j ELSE Len(s)
    IN IF b <= a THEN "" ELSE SubSeq(s, a + 1, b)

\* s[i:]
StrFrom(s, i) == StrSlice(s, i, Len(s))

\* s.startswith(p), s.endswith(p)
StartsWith(s, p) == Len(s) >= Len(p) /\ SubSeq(s, 1, Len(p)) = p
EndsWith(s, p) == Len(s) >= Len(p) /\ SubSeq(s, Len(s) - Len(p) + 1, Len(s)) = p

\* s.find(sub, from): the first position >= from where sub starts, or -1
RECURSIVE Find(_, _, _)
Find(s, sub, from) ==
    IF from + Len(sub) > Len(s) THEN -1
    ELSE IF StrSlice(s, from, from + Len(sub)) = sub THEN from
    ELSE Find(s, sub, from + 1)

\* s.replace(old, new)
RECURSIVE Replace(_, _, _)
Replace(s, old, new) ==
    IF Len(s) < Len(old) THEN s
    ELSE IF SubSeq(s, 1, Len(old)) = old
    THEN new \o Replace(StrFrom(s, Len(old)), old, new)
    ELSE SubSeq(s, 1, 1) \o Replace(StrFrom(s, 1), old, new)

\* str.isspace for the characters that occur inside one line
Whitespace == {" ", "\t"}

RECURSIVE LStrip(_)
LStrip(s) == IF Len(s) > 0 /\ SubSeq(s, 1, 1) \in Whitespace THEN LStrip(StrFrom(s, 1)) ELSE s

RECURSIVE RStrip(_)
RStrip(s) ==
    IF Len(s) > 0 /\ SubSeq(s, Len(s), Len(s)) \in Whitespace
    THEN RStrip(SubSeq(s, 1, Len(s) - 1)) ELSE s

\* s.strip()
Strip(s) == LStrip(RStrip(s))

\* s.split(sep): the pieces between the occurrences of sep, empty ones kept
RECURSIVE Split(_, _)
Split(s, sep) ==
    LET k == Find(s, sep, 0) IN
    IF k < 0 THEN <<s>>
    ELSE <<StrSlice(s, 0, k)>> \o Split(StrFrom(s, k + Len(sep)), sep)

\* repr(s) of a str: single quotes unless s holds a single quote and no
\* double quote; the backslash, the chosen quote, newline and tab escaped
Repr(s) ==
    LET quote == IF Find(s, "'", 0) >= 0 /\ Find(s, "\"", 0) < 0 THEN "\"" ELSE "'"
        e1 == Replace(s, "\\", "\\\\")
        e2 == Replace(e1, quote, "\\" \o quote)
        e3 == Replace(Replace(e2, "\n", "\\n"), "\t", "\\t")
    IN quote \o e3 \o quote

(***************************************************************************)
(* Code generators.  Generated text is a string, built as the code builds  *)
(* it.  The lowering of an AgentCall crosses into the agent layer and is   *)
(* not followed: both emitters render it as an opaque line.                *)
(***************************************************************************)
RECURSIVE Join(_, _)
Join(parts, sep) ==
    IF Len(parts) = 0 THEN ""
    ELSE IF Len(parts) = 1 THEN parts[1]
    ELSE parts[1] \o sep \o Join(Tail(parts), sep)

RECURSIVE Pad(_)
Pad(indent) == IF indent = 0 THEN "" ELSE "    " \o Pad(indent - 1)

\* transpiler_py.py: _emit_expr
RECURSIVE EmitExprPy(_)
EmitExprPy(e) ==
    CASE e.kind = "LiteralString" -> Repr(e.value)
      [] e.kind = "LiteralInt" -> ToString(e.value)
      [] e.kind = "NameExpr" -> e.id
      [] e.kind = "ListLiteral" ->
            "[" \o Join([k \in DOMAIN e.elements |-> EmitExprPy(e.elements[k])], ", ") \o "]"
      [] e.kind = "FunctionCall" ->
            e.name \o "(" \o Join([k \in DOMAIN e.args |-> EmitExprPy(e.args[k])], ", ") \o ")"
      [] e.kind = "BinaryOp" ->
            "(" \o EmitExprPy(e.left) \o " " \o e.op \o " " \o EmitExprPy(e.right) \o ")"
      [] e.kind = "Await" -> "await " \o EmitExprPy(e.expr)
      [] OTHER -> "None"

\* a chain that opens every branch with `if`.
BranchKeywordAlwaysIf(first, later) == "if"

\* prefix = 'if' if first else 'elif' (transpiler_py.py:75), and
\* prefix = 'if' if first else 'else if' (transpiler_js.py:113): `first` is
\* cleared after the first case, so it holds exactly for case 1
BranchKeyword(first, later) == IF first THEN "if" ELSE later

\* transpiler_py.py: the pattern dispatch inside _emit_stmt's Match branch
MatchCondPy(subj, pat) ==
    CASE pat.kind = "LiteralPattern" /\ pat.value.kind = "LiteralInt" ->
            [cond |-> subj \o " == " \o ToString(pat.value.value), binds |-> <<>>]
      [] pat.kind = "WildcardPattern" -> [cond |-> "True", binds |-> <<>>]
      [] pat.kind = "NamePattern" -> [cond |-> "True", binds |-> <<pat.name \o " = " \o subj>>]
      [] OTHER -> [cond |-> "False", binds |-> <<>>]

\* transpiler_py.py: _emit_stmt
RECURSIVE EmitStmtPy(_, _)
EmitStmtPy(n, indent) ==
    LET pad == Pad(indent)
        Block(stmts) == Join([k \in DOMAIN stmts |-> EmitStmtPy(stmts[k], indent + 1)], "\n")
    IN
    CASE n.kind \in {"Say", "Print"} -> pad \o "print(" \o EmitExprPy(n.text) \o ")"
      [] n.kind = "Assign" -> pad \o n.name \o " = " \o EmitExprPy(n.value)
      [] n.kind = "FunctionDef" ->
            pad \o (IF n.is_async THEN "async " ELSE "") \o "def " \o n.name \o "("
                \o Join(n.params, ", ") \o "):" \o "\n"
                \o (IF Len(n.body) > 0 THEN Block(n.body) ELSE pad \o "    pass")
      [] n.kind = "Return" -> pad \o "return " \o EmitExprPy(n.value)
      [] n.kind = "ForLoop" ->
            IF n.end.kind = "LiteralInt"
            THEN pad \o "for " \o n.var \o " in range(" \o EmitExprPy(n.end) \o "):\n" \o Block(n.body)
            ELSE pad \o "for " \o n.var \o " in " \o EmitExprPy(n.end) \o ":\n" \o Block(n.body)
      [] n.kind = "If" ->
            pad \o "if " \o EmitExprPy(n.cond) \o ":" \o "\n" \o Block(n.body)
                \o (IF Truthy(n.orelse)
                    THEN "\n" \o pad \o "else:\n" \o Block(n.orelse.items) ELSE "")
      [] n.kind = "FunctionCall" -> pad \o EmitExprPy(n)
      [] n.kind = "Match" ->
            LET subj == "__ms_match_val"
                CaseLines(k) ==
                    LET c == MatchCondPy(subj, n.cases[k].pattern) IN
                    <<pad \o BranchKeyword(k = 1, "elif") \o " " \o c.cond \o ":">>
                    \o [j \in DOMAIN c.binds |-> pad \o "    " \o c.binds[j]]
                    \o [j \in DOMAIN n.cases[k].body |-> EmitStmtPy(n.cases[k].body[j], indent + 1)]
                AllCases[k \in 0..Len(n.cases)] ==
                    IF k = 0 THEN <<>> ELSE AllCases[k - 1] \o CaseLines(k)
            IN Join(<<pad \o subj \o " = " \o EmitExprPy(n.subject)>> \o AllCases[Len(n.cases)], "\n")
      [] n.kind = "AgentCall" -> pad \o "<agent " \o n.agent \o ">"
      [] OTHER -> pad \o "# unsupported-stmt"

\* transpiler_js.py: _emit_expr
RECURSIVE EmitExprJs(_)
EmitExprJs(e) ==
    CASE e.kind = "LiteralString" -> "\"" \o Replace(e.value, "\"", "\\\"") \o "\""
      [] e.kind = "LiteralInt" -> ToString(e.value)
      [] e.kind = "NameExpr" -> e.id
      [] e.kind = "ListLiteral" ->
            "[" \o Join([k \in DOMAIN e.elements |-> EmitExprJs(e.elements[k])], ", ") \o "]"
      [] e.kind = "FunctionCall" ->
            e.name \o "(" \o Join([k \in DOMAIN e.args |-> EmitExprJs(e.args[k])], ", ") \o ")"
      [] e.kind = "BinaryOp" ->
            "(" \o EmitExprJs(e.left) \o " " \o e.op \o " " \o EmitExprJs(e.right) \o ")"
      [] e.kind = "Await" -> "await " \o EmitExprJs(e.expr)
      [] OTHER -> "undefined"

\* transpiler_js.py: _emit_pattern_match_check
EmitPatternMatchCheck(subject_var, pat) ==
    CASE pat.kind = "WildcardPattern" -> [cond |-> "true", binds |-> <<>>]
      [] pat.kind = "LiteralPattern" /\ pat.value.kind = "LiteralInt" ->
            [cond |-> subject_var \o " === " \o ToString(pat.value.value), binds |-> <<>>]
      [] pat.kind = "LiteralPattern" /\ pat.value.kind = "LiteralString" ->
            [cond |-> subject_var \o " === \"" \o pat.value.value \o "\"", binds |-> <<>>]
      [] pat.kind = "NamePattern" ->
            [cond |-> "true", binds |-> <<"let " \o pat.name \o " = " \o subject_var \o ";">>]
      [] pat.kind = "ListPattern" ->
            LET Check(idx) ==
                    LET sp == pat.elements[idx] IN
                    IF sp.kind = "LiteralPattern" /\ sp.value.kind = "LiteralInt"
                    THEN <<subject_var \o "[" \o ToString(idx - 1) \o "] === " \o ToString(sp.value.value)>>
                    ELSE IF sp.kind = "LiteralPattern" /\ sp.value.kind = "LiteralString"
                    THEN <<subject_var \o "[" \o ToString(idx - 1) \o "] === \"" \o sp.value.value \o "\"">>
                    ELSE <<>>
                Bind(idx) ==
                    LET sp == pat.elements[idx] IN
                    IF sp.kind = "NamePattern"
                    THEN <<"let " \o sp.name \o " = " \o subject_var \o "[" \o ToString(idx - 1) \o "];">>
                    ELSE <<>>
                Checks[k \in 0..Len(pat.elements)] ==
                    IF k = 0 THEN <<"Array.isArray(" \o subject_var \o ")",
                                    subject_var \o ".length === " \o ToString(Len(pat.elements))>>
                    ELSE Checks[k - 1] \o Check(k)
                Binds[k \in 0..Len(pat.elements)] ==
                    IF k = 0 THEN <<>> ELSE Binds[k - 1] \o Bind(k)
            IN [cond |-> Join(Checks[Len(pat.elements)], " && "), binds |-> Binds[Len(pat.elements)]]
      [] OTHER -> [cond |-> "false", binds |-> <<>>]

\* transpiler_js.py: _emit_node
RECURSIVE EmitNodeJs(_)
EmitNodeJs(n) ==
    LET Block(stmts) == Join([k \in DOMAIN stmts |-> EmitNodeJs(stmts[k])], "\n") IN
    CASE n.kind = "Program" -> Block(n.statements)
      [] n.kind \in {"Say", "Print"} -> "console.log(" \o EmitExprJs(n.text) \o ");"
      [] n.kind = "Assign" -> "let " \o n.name \o " = " \o EmitExprJs(n.value) \o ";"
      [] n.kind = "If" ->
            "if (" \o EmitExprJs(n.cond) \o ") { " \o Block(n.body) \o " }"
                \o (IF Truthy(n.orelse) THEN " else { " \o Block(n.orelse.items) \o " }" ELSE "")
      [] n.kind = "While" -> "while (" \o EmitExprJs(n.cond) \o ") { " \o Block(n.body) \o " }"
      [] n.kind = "ForLoop" ->
            LET v == n.var
                body == Block(n.body)
                Counting(start, stop, incr) ==
                    "for (let " \o v \o "=" \o start \o "; " \o v \o "<" \o stop \o "; "
                        \o v \o incr \o ") { " \o body \o " }"
            IN
            IF n.end.kind = "FunctionCall" /\ n.end.name = "range"
            THEN CASE Len(n.end.args) = 1 -> Counting("0", EmitExprJs(n.end.args[1]), "++")
                   [] Len(n.end.args) = 2 ->
                        Counting(EmitExprJs(n.end.args[1]), EmitExprJs(n.end.args[2]), "++")
                   [] Len(n.end.args) = 3 ->
                        Counting(EmitExprJs(n.end.args[1]), EmitExprJs(n.end.args[2]),
                                 "+= " \o EmitExprJs(n.end.args[3]))
                   [] OTHER -> Counting("0", EmitExprJs(n.end), "++")
            ELSE IF n.end.kind = "LiteralInt" THEN Counting("0", EmitExprJs(n.end), "++")
            ELSE "for (const " \o v \o " of " \o EmitExprJs(n.end) \o ") { " \o body \o " }"
      [] n.kind = "FunctionDef" ->
            (IF n.is_async THEN "async " ELSE "") \o "function " \o n.name \o "("
                \o Join(n.params, ", ") \o ") { " \o Block(n.body) \o " }"
      [] n.kind = "Return" -> "return " \o EmitExprJs(n.value) \o ";"
      [] n.kind = "DoBlock" -> Block(n.body)
      [] n.kind = "Match" ->
            LET subj_var == "__ms_match_val"
                CaseLines(k) ==
                    LET c == EmitPatternMatchCheck(subj_var, n.cases[k].pattern) IN
                    <<BranchKeyword(k = 1, "else if") \o " (" \o c.cond \o ") {">>
                    \o c.binds
                    \o [j \in DOMAIN n.cases[k].body |-> EmitNodeJs(n.cases[k].body[j])]
                    \o <<"}">>
                AllCases[k \in 0..Len(n.cases)] ==
                    IF k = 0 THEN <<>> ELSE AllCases[k - 1] \o CaseLines(k)
            IN Join(<<"const " \o subj_var \o " = " \o EmitExprJs(n.subject) \o ";">>
                    \o AllCases[Len(n.cases)], "\n")
      [] n.kind = "FunctionCall" -> EmitExprJs(n) \o ";"
      [] n.kind = "Await" -> "await " \o EmitExprJs(n.expr) \o ";"
      [] n.kind = "AgentCall" -> "<agent " \o n.agent \o ">"
      [] n.kind = "MacroDef" ->
            "function __macro_" \o n.name \o "(" \o Join(n.params, ", ") \o ") { "
                \o Block(n.body) \o " }"
      [] n.kind = "MacroCall" ->
            "__macro_" \o n.name \o "("
                \o Join([k \in DOMAIN n.args |-> EmitExprJs(n.args[k])], ", ") \o ");"
      [] OTHER -> "/* unsupported */"

\* What a transpile call gives its caller: the text, or the exception.
Returned(text) == [status |-> "ok", text |-> text]
Raised(what) == [status |-> what, text |-> ""]

\* transpiler_py.py: transpile.  try: expand_macros except Exception: pass
TranspilePy(program, ord) ==
    LET Emit(tree) ==
            Returned("# Transpiled by metascript transpiler_py\n"
                     \o Join([k \in DOMAIN tree.statements |-> EmitStmtPy(tree.statements[k], 0)], "\n")
                     \o "\n")
        Expanded(e) == IF e.status = "ok" THEN e.program ELSE program
    IN Emit(Expanded(ExpandMacros(program, ord)))

\* transpiler_js.py: transpile.  The exception of expand_macros propagates.
TranspileJs(program, ord) ==
    LET Emit(e) ==
            IF e.status # "ok" THEN Raised(e.status)
            ELSE Returned("// Transpiled by metascript transpiler_js (expanded features)\n"
                          \o EmitNodeJs(e.program) \o "\n")
    IN Emit(ExpandMacros(program, ord))

(***************************************************************************)
(* parser.py: the fallback parser.  `parse` uses it whenever lark cannot   *)
(* be imported; the lark path needs grammar.lark, which the package does   *)
(* not ship.  A parse gives a status and a node: "ok", or the exception    *)
(* ("unterminated" for ValueError("Unterminated string")), or "diverges"   *)
(* when a `while True` loop repeats an iteration that consumes nothing.    *)
(***************************************************************************)
Digits == {"0", "1", "2", "3", "4", "5", "6", "7", "8", "9"}

Letters == {"a", "b", "c", "d", "e", "f", "g", "h", "i", "j", "k", "l", "m",
            "n", "o", "p", "q", "r", "s", "t", "u", "v", "w", "x", "y", "z",
            "A", "B", "C", "D", "E", "F", "G", "H", "I", "J", "K", "L", "M",
            "N", "O", "P", "Q", "R", "S", "T", "U", "V", "W", "X", "Y", "Z"}

\* [A-Za-z_] and \w
NameStartChars == Letters \cup {"_"}
WordChars == NameStartChars \cup Digits

\* _ExprParser.peek
Peek(s, i) == StrSlice(s, i, i + 1)

\* the end of the longest run of characters of `chars` that starts at i
RECURSIVE RunEnd(_, _, _)
RunEnd(s, i, chars) == IF Peek(s, i) \in chars THEN RunEnd(s, i + 1, chars) ELSE i

\* _ExprParser.consume_ws
ConsumeWs(s, i) == RunEnd(s, i, Whitespace)

DigitValue(c) ==
    CASE c = "0" -> 0 [] c = "1" -> 1 [] c = "2" -> 2 [] c = "3" -> 3 [] c = "4" -> 4
      [] c = "5" -> 5 [] c = "6" -> 6 [] c = "7" -> 7 [] c = "8" -> 8 [] c = "9" -> 9

\* int(m.group(0)) for a run of digits
RECURSIVE ToInt(_)
ToInt(digits) ==
    IF Len(digits) = 0 THEN 0
    ELSE 10 * ToInt(StrSlice(digits, 0, Len(digits) - 1))
         + DigitValue(StrSlice(digits, Len(digits) - 1, Len(digits)))

Parsed(node, i) == [status |-> "ok", node |-> node, i |-> i]
ParseFailed(what, i) == [status |-> what, node |-> NoneVal, i |-> i]

RECURSIVE ParseExpr(_, _)
RECURSIVE ParseAtom(_, _)

\* the `while True` loops of parse_name_or_call (arguments, closed by ")")
\* and of parse_atom (list elements, closed by "]")
RECURSIVE ItemLoop(_, _, _, _)
ItemLoop(s, i, items, close) ==
    LET i1 == ConsumeWs(s, i)
        Continue(r) ==
            IF r.status # "ok" THEN [status |-> r.status, items |-> items, i |-> r.i]
            ELSE LET i2 == ConsumeWs(s, r.i)
                     items2 == Append(items, r.node)
                 IN IF Peek(s, i2) = "," THEN ItemLoop(s, i2 + 1, items2, close)
                    ELSE IF Peek(s, i2) = close
                    THEN [status |-> "ok", items |-> items2, i |-> i2 + 1]
                    ELSE IF i2 = i1 THEN [status |-> "diverges", items |-> items2, i |-> i2]
                    ELSE ItemLoop(s, i2, items2, close)
    IN IF Peek(s, i1) = close THEN [status |-> "ok", items |-> items, i |-> i1 + 1]
       ELSE Continue(ParseExpr(s, i1))

\* _ExprParser.parse_name_or_call
ParseNameOrCall(s, i) ==
    LET d == RunEnd(s, i, Digits) IN
    IF d > i THEN Parsed(LiteralInt(ToInt(StrSlice(s, i, d))), d)
    ELSE IF Peek(s, i) \in NameStartChars
    THEN LET e == RunEnd(s, i, WordChars)
             name == StrSlice(s, i, e)
             j == ConsumeWs(s, e)
             Call(r) == IF r.status = "ok" THEN Parsed(FunctionCall(name, r.items), r.i)
                        ELSE ParseFailed(r.status, r.i)
         IN IF Peek(s, j) = "(" THEN Call(ItemLoop(s, j + 1, <<>>, ")"))
            ELSE Parsed(NameExpr(name), j)
    ELSE Parsed(NoneVal, i)

\* _ExprParser.parse_atom
ParseAtom(s, i0) ==
    LET i == ConsumeWs(s, i0)
        ch == Peek(s, i)
        AwaitOf(r) == IF r.status = "ok" THEN Parsed(Await(r.node), r.i) ELSE r
        ListOf(r) == IF r.status = "ok" THEN Parsed(ListLiteral(r.items), r.i)
                     ELSE ParseFailed(r.status, r.i)
        Paren(r) == IF r.status = "ok" /\ Peek(s, r.i) = ")" THEN Parsed(r.node, r.i + 1) ELSE r
    IN
    IF StrSlice(s, i, i + 6) = "await " THEN AwaitOf(ParseAtom(s, i + 6))
    ELSE IF ch \in {"\"", "'"}
    THEN LET end == Find(s, ch, i + 1) IN
         IF end = -1 THEN ParseFailed("unterminated", i)
         ELSE Parsed(LiteralString(StrSlice(s, i + 1, end)), end + 1)
    ELSE IF ch = "[" THEN ListOf(ItemLoop(s, i + 1, <<>>, "]"))
    ELSE IF ch = "(" THEN Paren(ParseExpr(s, i + 1))
    ELSE ParseNameOrCall(s, i)

\* the loop of parse_term
RECURSIVE TermLoop(_, _, _)
TermLoop(s, left, i) ==
    LET j == ConsumeWs(s, i)
        op == Peek(s, j)
        Continue(r) == IF r.status # "ok" THEN r ELSE TermLoop(s, BinaryOp(op, left, r.node), r.i)
    IN IF op \in {"*", "/"} THEN Continue(ParseAtom(s, j + 1)) ELSE Parsed(left, j)

\* _ExprParser.parse_term
ParseTerm(s, i) ==
    LET Continue(r) == IF r.status # "ok" THEN r ELSE TermLoop(s, r.node, r.i)
    IN Continue(ParseAtom(s, i))

\* the loop of parse_expr
RECURSIVE ExprLoop(_, _, _)
ExprLoop(s, left, i) ==
    LET j == ConsumeWs(s, i)
        op == Peek(s, j)
        Continue(r) == IF r.status # "ok" THEN r ELSE ExprLoop(s, BinaryOp(op, left, r.node), r.i)
    IN IF op \in {"+", "-"} THEN Continue(ParseTerm(s, j + 1)) ELSE Parsed(left, j)

\* _ExprParser.parse_expr
ParseExpr(s, i) ==
    LET Continue(r) == IF r.status # "ok" THEN r ELSE ExprLoop(s, r.node, r.i)
    IN Continue(ParseTerm(s, i))

\* _ExprParser(text).parse_expr(): the constructor strips the text; the
\* caller takes the node and never looks at the position reached
ParseExpression(text) == ParseExpr(Strip(text), 0)

\* a statement built from one parsed expression; an exception of the
\* expression parser leaves _parse_line
StmtOf(r, Make(_)) ==
    IF r.status = "ok" THEN [status |-> "ok", node |-> Make(r.node)]
    ELSE [status |-> r.status, node |-> NoneVal]

\* [_ExprParser(p).parse_expr() for p in parts]
RECURSIVE ParseAll(_, _, _)
ParseAll(parts, k, items) ==
    IF k > Len(parts) THEN [status |-> "ok", items |-> items]
    ELSE LET Continue(r) == IF r.status # "ok" THEN [status |-> r.status, items |-> items]
                            ELSE ParseAll(parts, k + 1, Append(items, r.node))
         IN Continue(ParseExpression(parts[k]))

StripAll(parts) == [k \in DOMAIN parts |-> Strip(parts[k])]

\* `[p.strip() for p in inner.split(',') if p.strip()]`
NonEmptyParts(text) == SelectSeq(StripAll(Split(text, ",")), LAMBDA part : part # "")

\* `[body] if body else []`: a node is truthy, None is not
OptionalBody(node) == IF node.kind = "None" THEN <<>> ELSE <<node>>

\* re.match(r"for\s+(\w+)\s+in\s+", line): where the variable starts and
\* ends and where the text after `in` starts
ForHead(line) ==
    LET a == RunEnd(line, 3, Whitespace)
        b == RunEnd(line, a, WordChars)
        c == RunEnd(line, b, Whitespace)
        d == RunEnd(line, c + 2, Whitespace)
    IN [matched |-> a > 3 /\ b > a /\ c > b /\ StrSlice(line, c, c + 2) = "in" /\ d > c + 2,
        var |-> StrSlice(line, a, b), rest |-> d]

\* re.match(r"for\s+(\w+)\s+in\s+range\(([^)]*)\)\s*:\s*(.+)", line)
ForRangeMatch(line) ==
    LET h == ForHead(line)
        e == Find(line, ")", h.rest + 6)
        f == RunEnd(line, e + 1, Whitespace)
        g == RunEnd(line, f + 1, Whitespace)
    IN [matched |-> h.matched /\ StrSlice(line, h.rest, h.rest + 6) = "range(" /\ e >= 0
                    /\ Peek(line, f) = ":" /\ g < Len(line),
        var |-> h.var, inner |-> StrSlice(line, h.rest + 6, e), body |-> StrFrom(line, g)]

\* re.match(r"for\s+(\w+)\s+in\s+(.+?)\s*:\s*(.+)", line): the lazy group
\* ends before the first colon that leaves it one character at least
ForGenericMatch(line) ==
    LET h == ForHead(line)
        k == Find(line, ":", h.rest + 1)
        g == RunEnd(line, k + 1, Whitespace)
    IN [matched |-> h.matched /\ k >= 0 /\ g < Len(line),
        var |-> h.var, iterable |-> StrSlice(line, h.rest, k), body |-> StrFrom(line, g)]

\* re.match(r"while\s+(.+?)\s*:\s*(.+)", line): the lazy group ends before
\* the first colon that leaves it one character at least
WhileMatch(line) ==
    LET a == RunEnd(line, 5, Whitespace)
        k == Find(line, ":", a + 1)
        g == RunEnd(line, k + 1, Whitespace)
    IN [matched |-> a > 5 /\ k >= 0 /\ g < Len(line),
        cond |-> StrSlice(line, a, k), body |-> StrFrom(line, g)]

\* the last position >= 1 of ".." in s that leaves a character after it
RECURSIVE LastDots(_, _)
LastDots(s, k) ==
    IF k < 1 THEN -1
    ELSE IF StrSlice(s, k, k + 2) = ".." /\ k + 2 < Len(s) THEN k
    ELSE LastDots(s, k - 1)

\* the statement forms of _parse_line that are not followed here
UnmodelledForm(line) ==
    \/ \E kw \in {"macro ", "async def ", "def ", "match ", "if ", "agent "} :
            StartsWith(line, kw)
    \/ StartsWith(line, "@") /\ Find(line, "(", 0) >= 0

\* parser.py: _parse_line, for the forms say, print, let, return, while,
\* for, assignment, call and bare name
RECURSIVE ParseLine(_)
ParseLine(raw) ==
    LET line == Strip(raw)
        eq == Find(line, "=", 0)
        AssignTo(name, r) ==
            IF r.status = "ok" THEN [status |-> "ok", node |-> Assign(name, r.node)]
            ELSE [status |-> r.status, node |-> NoneVal]
        \* range(...): the body is parsed before the arguments (line 429)
        Loop(var, body, EndOf(_), e) ==
            IF body.status # "ok" THEN body
            ELSE IF e.status # "ok" THEN [status |-> e.status, node |-> NoneVal]
            ELSE [status |-> "ok", node |-> ForLoop(var, EndOf(e), OptionalBody(body.node))]
        \* any other iterable: the header is parsed before the body
        LoopOver(var, body, EndOf(_), e) ==
            IF e.status # "ok" THEN [status |-> e.status, node |-> NoneVal]
            ELSE IF body.status # "ok" THEN body
            ELSE [status |-> "ok", node |-> ForLoop(var, EndOf(e), OptionalBody(body.node))]
        RangeOfItems(e) == FunctionCall("range", e.items)
        NodeOf(e) == e.node
        Inclusive(e) == FunctionCall("range", <<e.items[1], BinaryOp("+", e.items[2], LiteralInt(1))>>)
        CallOf(name, e) ==
            IF e.status = "ok" THEN [status |-> "ok", node |-> FunctionCall(name, e.items)]
            ELSE [status |-> e.status, node |-> NoneVal]
    IN
    IF line = "" THEN [status |-> "ok", node |-> NoneVal]
    ELSE IF StartsWith(line, "say ") THEN StmtOf(ParseExpression(StrFrom(line, 4)), Say)
    ELSE IF StartsWith(line, "print ") THEN StmtOf(ParseExpression(StrFrom(line, 6)), PrintStmt)
    ELSE IF StartsWith(line, "let ") /\ Find(StrFrom(line, 4), "=", 0) >= 0
    THEN LET rest == StrFrom(line, 4)
             k == Find(rest, "=", 0)
         IN AssignTo(Strip(StrSlice(rest, 0, k)), ParseExpression(StrFrom(rest, k + 1)))
    ELSE IF UnmodelledForm(line) THEN [status |-> "unmodelled", node |-> NoneVal]
    ELSE IF StartsWith(line, "return ") THEN StmtOf(ParseExpression(StrFrom(line, 7)), Return)
    ELSE IF StartsWith(line, "while ") /\ WhileMatch(line).matched
    THEN LET m == WhileMatch(line)
             Looping(cond, body) ==
                 IF cond.status # "ok" THEN [status |-> cond.status, node |-> NoneVal]
                 ELSE IF body.status # "ok" THEN body
                 ELSE [status |-> "ok", node |-> While(cond.node, OptionalBody(body.node))]
         IN Looping(ParseExpression(m.cond), ParseLine(m.body))
    ELSE IF StartsWith(line, "for ") /\ ForRangeMatch(line).matched
    THEN LET m == ForRangeMatch(line)
             inner == Strip(m.inner)
         IN IF Find(inner, ",", 0) >= 0
            THEN Loop(m.var, ParseLine(m.body), RangeOfItems, ParseAll(NonEmptyParts(inner), 1, <<>>))
            ELSE IF inner # ""
            THEN Loop(m.var, ParseLine(m.body), NodeOf, ParseExpression(inner))
            ELSE Loop(m.var, ParseLine(m.body), NodeOf, Parsed(LiteralInt(0), 0))
    ELSE IF StartsWith(line, "for ") /\ ForGenericMatch(line).matched
    THEN LET m == ForGenericMatch(line)
             iterable_src == Strip(m.iterable)
             k == LastDots(iterable_src, Len(iterable_src) - 2)
         IN IF k >= 1
            THEN LoopOver(m.var, ParseLine(m.body), Inclusive,
                          ParseAll(<<StrSlice(iterable_src, 0, k), StrFrom(iterable_src, k + 2)>>, 1, <<>>))
            ELSE LoopOver(m.var, ParseLine(m.body), NodeOf, ParseExpression(iterable_src))
    ELSE IF eq >= 0
    THEN AssignTo(Strip(StrSlice(line, 0, eq)), ParseExpression(StrFrom(line, eq + 1)))
    ELSE IF EndsWith(line, ")") /\ Find(line, "(", 0) >= 0
    THEN LET k == Find(line, "(", 0)
             args_text == Strip(StrSlice(line, k + 1, Len(line) - 1))
         IN CallOf(Strip(StrSlice(line, 0, k)),
                   IF args_text # "" THEN ParseAll(Split(args_text, ","), 1, <<>>)
                   ELSE [status |-> "ok", items |-> <<>>])
    ELSE [status |-> "ok", node |-> NameExpr(line)]

\* the lines that follow position j, while they are indented and not blank
RECURSIVE BlockEnd(_, _)
BlockEnd(raw_lines, j) ==
    IF j <= Len(raw_lines) /\ LStrip(raw_lines[j]) # raw_lines[j] /\ Strip(raw_lines[j]) # ""
    THEN BlockEnd(raw_lines, j + 1) ELSE j

\* _parse_fallback, first loop: a header line ending with ':' is joined
\* with the indented lines that follow it
RECURSIVE JoinBlocks(_, _, _)
JoinBlocks(raw_lines, i, processed) ==
    IF i > Len(raw_lines) THEN processed
    ELSE LET ln == raw_lines[i]
             j == BlockEnd(raw_lines, i + 1)
             blocks == [k \in 1..(j - i - 1) |-> LStrip(raw_lines[i + k])]
         IN IF Strip(ln) = "" THEN JoinBlocks(raw_lines, i + 1, processed)
            ELSE IF EndsWith(RStrip(ln), ":") /\ j > i + 1
            THEN JoinBlocks(raw_lines, j, Append(processed, Strip(ln) \o " " \o Join(blocks, " ")))
            ELSE JoinBlocks(raw_lines, i + 1, Append(processed, Strip(ln)))

\* _parse_fallback, second loop
RECURSIVE ParseLines(_, _, _)
ParseLines(lines, k, stmts) ==
    IF k > Len(lines) THEN [status |-> "ok", program |-> Program(stmts)]
    ELSE LET Continue(r) ==
                 IF r.status # "ok" THEN [status |-> r.status, program |-> NoneVal]
                 ELSE ParseLines(lines, k + 1, stmts \o OptionalBody(r.node))
         IN Continue(ParseLine(lines[k]))

\* parser.py: _parse_fallback; text.splitlines() for a text whose only
\* line boundary is "\n"
ParseFallback(text) == ParseLines(JoinBlocks(Split(text, "\n"), 1, <<>>), 1, <<>>)

\* parser.py: parse
Parse(source) == ParseFallback(source)

(***************************************************************************)
(* unparse.py                                                              *)
(***************************************************************************)
\* unparse.py: _unparse_expr
RECURSIVE UnparseExpr(_)
UnparseExpr(e) ==
    CASE e.kind = "LiteralString" -> "\"" \o Replace(e.value, "\"", "\\\"") \o "\""
      [] e.kind = "LiteralInt" -> ToString(e.value)
      [] e.kind = "NameExpr" -> e.id
      [] e.kind = "ListLiteral" ->
            "[" \o Join([k \in DOMAIN e.elements |-> UnparseExpr(e.elements[k])], ", ") \o "]"
      [] e.kind = "FunctionCall" ->
            e.name \o "(" \o Join([k \in DOMAIN e.args |-> UnparseExpr(e.args[k])], ", ") \o ")"
      [] e.kind = "BinaryOp" ->
            "(" \o UnparseExpr(e.left) \o " " \o e.op \o " " \o UnparseExpr(e.right) \o ")"
      [] e.kind = "Await" -> "await " \o UnparseExpr(e.expr)
      [] OTHER -> "None"

\* unparse.py: the pattern source inside _unparse_stmt's Match branch
UnparsePattern(pat) ==
    LET Element(e) ==
            IF e.kind = "NamePattern" THEN e.name
            ELSE IF e.kind = "LiteralPattern" /\ e.value.kind = "LiteralInt"
            THEN ToString(e.value.value)
            ELSE "?"
    IN CASE pat.kind = "WildcardPattern" -> "_"
         [] pat.kind = "NamePattern" -> pat.name
         [] pat.kind = "LiteralPattern" /\ pat.value.kind = "LiteralInt" -> ToString(pat.value.value)
         [] pat.kind = "ListPattern" ->
                "[" \o Join([k \in DOMAIN pat.elements |-> Element(pat.elements[k])], ", ") \o "]"
         [] OTHER -> "_"

\* unparse.py: _unparse_stmt
RECURSIVE UnparseStmt(_, _)
UnparseStmt(n, indent) ==
    LET pad == Pad(indent)
        Block(stmts, depth) == Join([k \in DOMAIN stmts |-> UnparseStmt(stmts[k], depth)], "\n")
    IN
    CASE n.kind = "Say" -> pad \o "say " \o UnparseExpr(n.text)
      [] n.kind = "Print" -> pad \o "print " \o UnparseExpr(n.text)
      [] n.kind = "Assign" -> pad \o "let " \o n.name \o " = " \o UnparseExpr(n.value)
      [] n.kind = "FunctionDef" ->
            pad \o "def " \o n.name \o "(" \o Join(n.params, ", ") \o "):" \o "\n"
                \o (IF Len(n.body) > 0 THEN Block(n.body, indent + 1) ELSE pad \o "    pass")
      [] n.kind = "Return" -> pad \o "return " \o UnparseExpr(n.value)
      [] n.kind = "ForLoop" ->
            IF n.end.kind = "LiteralInt"
            THEN pad \o "for " \o n.var \o " in range(" \o UnparseExpr(n.end) \o "):\n"
                     \o Block(n.body, indent + 1)
            ELSE pad \o "for " \o n.var \o " in " \o UnparseExpr(n.end) \o ":\n"
                     \o Block(n.body, indent + 1)
      [] n.kind = "If" ->
            pad \o "if " \o UnparseExpr(n.cond) \o ":" \o "\n" \o Block(n.body, indent + 1)
                \o (IF Truthy(n.orelse)
                    THEN "\n" \o pad \o "else:" \o "\n" \o Block(n.orelse.items, indent + 1)
                    ELSE "")
      [] n.kind = "FunctionCall" -> pad \o UnparseExpr(n)
      [] n.kind = "Match" ->
            LET CaseText(c) == "\n" \o pad \o "    case " \o UnparsePattern(c.pattern) \o ": "
                                    \o Block(c.body, indent + 2)
                AllCases[k \in 0..Len(n.cases)] ==
                    IF k = 0 THEN "" ELSE AllCases[k - 1] \o CaseText(n.cases[k])
            IN pad \o "match " \o UnparseExpr(n.subject) \o ":" \o AllCases[Len(n.cases)]
      [] OTHER -> pad \o "# unsupported"

\* unparse.py: unparse
Unparse(program) ==
    Join([k \in DOMAIN program.statements |-> UnparseStmt(program.statements[k], 0)], "\n") \o "\n"

(***************************************************************************)
(* Inputs.  A program is a sequence of at most MaxStmts statements drawn   *)
(* from StmtPool.                                                          *)
(***************************************************************************)
MaxStmts == 3

StmtPool == <<
    \* let tmp = 99
    Assign("tmp", LiteralInt(99)),
    \* macro m(x): let tmp = x
    MacroDef("m", <<"x">>, <<Assign("tmp", NameExpr("x"))>>),
    \* @m(1)
    MacroCall("m", <<LiteralInt(1)>>),
    \* def f(): macro inner(x): say x ; @inner("a")
    FunctionDef("f", <<>>, <<MacroDef("inner", <<"x">>, <<Say(NameExpr("x"))>>),
                             MacroCall("inner", <<LiteralString("a")>>)>>, FALSE),
    \* @inner("b")
    MacroCall("inner", <<LiteralString("b")>>),
    \* macro m(): let a = 1 ; let b = a
    MacroDef("m", <<>>, <<Assign("a", LiteralInt(1)), Assign("b", NameExpr("a"))>>),
    \* macro inner(y): macro m(x): say x ; let tmp = y ; @m(tmp)
    MacroDef("inner", <<"y">>, <<MacroDef("m", <<"x">>, <<Say(NameExpr("x"))>>),
                                 Assign("tmp", NameExpr("y")),
                                 MacroCall("m", <<NameExpr("tmp")>>)>>),
    \* if tmp: say "t" else: macro m(): (nothing)
    If(NameExpr("tmp"), <<Say(LiteralString("t"))>>, ListVal(<<MacroDef("m", <<>>, <<>>)>>)),
    \* let __ms_macro_tmp_1 = 5
    Assign("__ms_macro_tmp_1", LiteralInt(5)),
    \* do: macro m(x): say x ; @m(tmp)
    DoBlock(<<MacroDef("m", <<"x">>, <<Say(NameExpr("x"))>>),
              MacroCall("m", <<NameExpr("tmp")>>)>>),
    \* for i in range(3): @m(i)
    ForLoop("i", FunctionCall("range", <<LiteralInt(3)>>), <<MacroCall("m", <<NameExpr("i")>>)>>)
>>

\* The identifiers of the pools, in one iteration order of a set of str.
IdentOrder == <<"a", "b", "i", "tmp", "x", "y", "f", "__ms_macro_tmp_1", "p", "t", "v">>

Reverse(s) == [k \in DOMAIN s |-> s[Len(s) + 1 - k]]

\* The iteration orders a process may have.
HashOrders == {IdentOrder, Reverse(IdentOrder)}

MakeProgram(choice) == Program([k \in DOMAIN choice |-> StmtPool[choice[k]]])

(***************************************************************************)
(* The state machine.  An invocation t of expand_macros advances one       *)
(* iteration of the top-level statement loop per step.                     *)
(***************************************************************************)
Threads == {1, 2}

VARIABLES
    input,      \* input[t]: the Program object handed to invocation t
    hashOrder,  \* the set iteration order of the process
    pc,         \* pc[t]: "idle", "running", "returned", "raised"
    idx,        \* idx[t]: position of the top-level loop (1-based)
    out,        \* out[t]: the list `out` of the top-level expand_stmt_list
    uid,        \* uid[c]: the counter cell c
    env_stack,  \* env_stack[t]
    status,     \* status[t]: "ok" or the exception raised
    names,      \* names[t]: history of the names make_fresh returned
    log,        \* log[t]: history of registrations and lookups
    result,     \* result[t]: the Program returned, NoneVal otherwise
    phase,      \* what the driver does next
    rerun,      \* expand_macros(input[1]) in another process
    again,      \* expand_macros(result[1])
    pyOut,      \* transpiler_py.transpile(input[1])
    jsOut,      \* transpiler_js.transpile(input[1])
    pyExp,      \* transpiler_py.transpile(result[1])
    jsExp,      \* transpiler_js.transpile(result[1])
    source,     \* the source text handed to parse
    parsed,     \* parse(source)
    unparsed,   \* unparse(parse(source))
    trip        \* parse(unparse(expand_macros(parse(source))))

vars == <<input, hashOrder, pc, idx, out, uid, env_stack, status, names, log,
          result, phase, rerun, again, pyOut, jsOut, pyExp, jsExp,
          source, parsed, unparsed, trip>>

\* every invocation uses one counter cell for all of its invocations.
SharedCounterCell(t) == 1

\* uid = [0]: the counter cell is allocated by the invocation itself
CounterCell(t) == t

\* the record the helpers thread, read from the variables of invocation t
Load(t) == [uid |-> uid[CounterCell(t)], env_stack |-> env_stack[t],
            status |-> status[t], names |-> names[t], log |-> log[t]]

Store(t, st) ==
    /\ uid' = [uid EXCEPT ![CounterCell(t)] = st.uid]
    /\ env_stack' = [env_stack EXCEPT ![t] = st.env_stack]
    /\ status' = [status EXCEPT ![t] = st.status]
    /\ names' = [names EXCEPT ![t] = st.names]
    /\ log' = [log EXCEPT ![t] = st.log]

front == <<source, parsed, unparsed, trip>>

driver == <<phase, rerun, again, pyOut, jsOut, pyExp, jsExp, front>>

NotRun == [status |-> "not run"]

InitCommon ==
    /\ pc = [t \in Threads |-> "idle"]
    /\ idx = [t \in Threads |-> 0]
    /\ out = [t \in Threads |-> <<>>]
    /\ uid = [t \in Threads |-> 0]
    /\ env_stack = [t \in Threads |-> <<>>]
    /\ status = [t \in Threads |-> "ok"]
    /\ names = [t \in Threads |-> <<>>]
    /\ log = [t \in Threads |-> <<>>]
    /\ result = [t \in Threads |-> NoneVal]
    /\ rerun = NotRun
    /\ again = NotRun
    /\ pyOut = NotRun
    /\ jsOut = NotRun
    /\ pyExp = NotRun
    /\ jsExp = NotRun
    /\ parsed = NotRun
    /\ unparsed = NotRun
    /\ trip = NotRun

Init ==
    /\ \E n \in 0..MaxStmts : \E choice \in [1..n -> DOMAIN StmtPool] :
            input = [t \in Threads |-> IF t = 1 THEN MakeProgram(choice) ELSE Program(<<>>)]
    /\ hashOrder \in HashOrders
    /\ phase = "expand"
    /\ source = ""
    /\ InitCommon

\* expand_macros, lines 206 and 311, and the entry of the top-level
\* expand_stmt_list (lines 218-221)
Start(t) ==
    /\ pc[t] = "idle"
    /\ pc' = [pc EXCEPT ![t] = "running"]
    /\ idx' = [idx EXCEPT ![t] = 1]
    /\ out' = [out EXCEPT ![t] = <<>>]
    /\ Store(t, PushFrame(EnterBlock(NewState)))
    /\ UNCHANGED <<input, hashOrder, result, driver>>

\* one iteration of `for s in stmts` at the top level; an exception unwinds
\* through `finally: env_stack.pop()` and leaves expand_macros
StepCore(t) ==
    /\ pc[t] = "running"
    /\ idx[t] <= Len(input[t].statements)
    /\ LET Effect(r) ==
                IF r.st.status = "ok"
                THEN /\ Store(t, r.st)
                     /\ out' = [out EXCEPT ![t] = r.out]
                     /\ idx' = [idx EXCEPT ![t] = idx[t] + 1]
                     /\ UNCHANGED <<pc, result>>
                ELSE /\ Store(t, ExitBlock(PopFrame(r.st)))
                     /\ pc' = [pc EXCEPT ![t] = "raised"]
                     /\ result' = [result EXCEPT ![t] = NoneVal]
                     /\ UNCHANGED <<out, idx>>
       IN Effect(StmtIter(input[t].statements[idx[t]], out[t], Load(t), 0, hashOrder))
    /\ UNCHANGED <<hashOrder, driver>>

\* an iteration that takes a registered MacroDef out of the caller's list.
StepDeletingMacroDef(t) ==
    /\ StepCore(t)
    /\ LET stmts == input[t].statements IN
       input' = IF stmts[idx[t]].kind = "MacroDef"
                THEN [input EXCEPT ![t] =
                        Program(SubSeq(stmts, 1, idx[t] - 1) \o SubSeq(stmts, idx[t] + 1, Len(stmts)))]
                ELSE input

\* no statement of expand_macros assigns to a node or to a list of the input
Step(t) ==
    /\ StepCore(t)
    /\ UNCHANGED input

\* the loop is over: finally pop, return out; return msast.Program(out)
Finish(t) ==
    /\ pc[t] = "running"
    /\ idx[t] > Len(input[t].statements)
    /\ Store(t, ExitBlock(PopFrame(Load(t))))
    /\ pc' = [pc EXCEPT ![t] = "returned"]
    /\ result' = [result EXCEPT ![t] = Program(out[t])]
    /\ UNCHANGED <<input, hashOrder, out, idx, driver>>

machine == <<input, hashOrder, pc, idx, out, uid, env_stack, status, names, log, result>>

\* the same input expanded by a run in another process
Rerun ==
    /\ phase = "expand"
    /\ pc[1] \in {"returned", "raised"}
    /\ \E ord \in HashOrders : rerun' = ExpandMacros(input[1], ord)
    /\ phase' = "rerun"
    /\ UNCHANGED <<machine, again, pyOut, jsOut, pyExp, jsExp, front>>

\* expand_macros applied to the tree expand_macros returned
Reexpand ==
    /\ phase = "rerun"
    /\ again' = IF pc[1] = "returned" THEN ExpandMacros(result[1], hashOrder) ELSE NotRun
    /\ phase' = "again"
    /\ UNCHANGED <<machine, rerun, pyOut, jsOut, pyExp, jsExp, front>>

DoTranspilePy ==
    /\ phase = "again"
    /\ pyOut' = TranspilePy(input[1], hashOrder)
    /\ phase' = "py"
    /\ UNCHANGED <<machine, rerun, again, jsOut, pyExp, jsExp, front>>

DoTranspileJs ==
    /\ phase = "py"
    /\ jsOut' = TranspileJs(input[1], hashOrder)
    /\ phase' = "js"
    /\ UNCHANGED <<machine, rerun, again, pyOut, pyExp, jsExp, front>>

\* both generators applied to the tree expand_macros returned, as a caller
\* that expands before it generates does (cli.py: transform_ms_to_python)
DoTranspileExpanded ==
    /\ phase = "js"
    /\ pc[1] = "returned"
    /\ pyExp' = TranspilePy(result[1], hashOrder)
    /\ jsExp' = TranspileJs(result[1], hashOrder)
    /\ phase' = "expanded"
    /\ UNCHANGED <<machine, rerun, again, pyOut, jsOut, front>>

Next ==
    \/ Start(1)
    \/ Step(1)
    \/ Finish(1)
    \/ Rerun
    \/ Reexpand
    \/ DoTranspilePy
    \/ DoTranspileJs
    \/ DoTranspileExpanded

Spec == Init /\ [][Next]_vars

(***************************************************************************)
(* Two invocations in one process, on separate threads: their steps        *)
(* interleave in any order.                                                *)
(***************************************************************************)
MaxConcStmts == 2

\* the statements (positions of StmtPool) the concurrent inputs draw from
ConcPool == <<2, 3, 6, 5>>

InitConc ==
    /\ \E n1 \in 0..MaxConcStmts, n2 \in 0..MaxConcStmts :
        \E c1 \in [1..n1 -> DOMAIN ConcPool], c2 \in [1..n2 -> DOMAIN ConcPool] :
            input = [t \in Threads |->
                        IF t = 1 THEN MakeProgram([k \in DOMAIN c1 |-> ConcPool[c1[k]]])
                        ELSE MakeProgram([k \in DOMAIN c2 |-> ConcPool[c2[k]]])]
    /\ hashOrder \in HashOrders
    /\ phase = "threads"
    /\ source = ""
    /\ InitCommon

NextConc == \E t \in Threads : Start(t) \/ Step(t) \/ Finish(t)

SpecConc == InitConc /\ [][NextConc]_vars

(***************************************************************************)
(* One invocation on programs of macros whose bodies bind names, use a     *)
(* parameter more than once, are empty, or hold a Match or a nested def.   *)
(***************************************************************************)
MaxHygStmts == 3

HygPool == <<
    \* macro m(x): x
    MacroDef("m", <<"x">>, <<NameExpr("x")>>),
    \* @m(1)
    MacroCall("m", <<LiteralInt(1)>>),
    \* macro m(): def f(p): return p ; say f(2)
    MacroDef("m", <<>>, <<FunctionDef("f", <<"p">>, <<Return(NameExpr("p"))>>, FALSE),
                          Say(FunctionCall("f", <<LiteralInt(2)>>))>>),
    \* macro m(v): match v: case x: let t = x
    MacroDef("m", <<"v">>, <<Match(NameExpr("v"),
                                   <<MatchCase(NamePattern("x"),
                                               <<Assign("t", NameExpr("x"))>>)>>)>>),
    \* macro m(x): say x + x ; let t = x
    MacroDef("m", <<"x">>, <<Say(BinaryOp("+", NameExpr("x"), NameExpr("x"))),
                             Assign("t", NameExpr("x"))>>),
    \* say 0
    Say(LiteralInt(0)),
    \* @m(a + 1)
    MacroCall("m", <<BinaryOp("+", NameExpr("a"), LiteralInt(1))>>),
    \* do: macro m(): (nothing) ; @m() ; say 7
    DoBlock(<<MacroDef("m", <<>>, <<>>), MacroCall("m", <<>>), Say(LiteralInt(7))>>),
    \* macro m(): (nothing)
    MacroDef("m", <<>>, <<>>)
>>

InitHyg ==
    /\ \E n \in 0..MaxHygStmts : \E choice \in [1..n -> DOMAIN HygPool] :
            input = [t \in Threads |->
                        IF t = 1 THEN Program([k \in DOMAIN choice |-> HygPool[choice[k]]])
                        ELSE Program(<<>>)]
    /\ hashOrder \in HashOrders
    /\ phase = "expand"
    /\ source = ""
    /\ InitCommon

NextHyg == Start(1) \/ Step(1) \/ Finish(1)

SpecHyg == InitHyg /\ [][NextHyg]_vars

(***************************************************************************)
(* The generators on programs with Match statements.  A Match has at most  *)
(* MaxCases cases drawn from CasePool; the body of case k of the pool is   *)
(* `say k`, so a branch of the output names the case it came from.         *)
(***************************************************************************)
MaxCases == 3

CasePool == <<
    \* case 1: say 1
    MatchCase(LiteralPattern(LiteralInt(1)), <<Say(LiteralInt(1))>>),
    \* case n: say 2
    MatchCase(NamePattern("n"), <<Say(LiteralInt(2))>>),
    \* case _: say 3
    MatchCase(WildcardPattern, <<Say(LiteralInt(3))>>),
    \* case "hi": say 4
    MatchCase(LiteralPattern(LiteralString("hi")), <<Say(LiteralInt(4))>>),
    \* case [a, b]: say 5
    MatchCase(ListPattern(<<NamePattern("a"), NamePattern("b")>>), <<Say(LiteralInt(5))>>),
    \* case [7, b]: say 6
    MatchCase(ListPattern(<<LiteralPattern(LiteralInt(7)), NamePattern("b")>>),
              <<Say(LiteralInt(6))>>)
>>

MakeMatch(choice) == Match(NameExpr("x"), [k \in DOMAIN choice |-> CasePool[choice[k]]])

\* where the Match stands in the program
Layouts == {"alone", "between", "twice"}

MatchProgram(choice, layout) ==
    CASE layout = "alone"   -> Program(<<MakeMatch(choice)>>)
      [] layout = "between" -> Program(<<Say(LiteralInt(0)), MakeMatch(choice),
                                         Say(LiteralInt(9))>>)
      [] layout = "twice"   -> Program(<<MakeMatch(choice), MakeMatch(choice)>>)

InitGen ==
    /\ \E n \in 1..MaxCases : \E choice \in [1..n -> DOMAIN CasePool] :
       \E layout \in Layouts :
            input = [t \in Threads |-> IF t = 1 THEN MatchProgram(choice, layout)
                                                ELSE Program(<<>>)]
    /\ hashOrder = IdentOrder
    /\ phase = "again"
    /\ source = ""
    /\ InitCommon

NextGen == DoTranspilePy \/ DoTranspileJs

SpecGen == InitGen /\ [][NextGen]_vars

(***************************************************************************)
(* From source text: parse, unparse, then both generators on the parsed    *)
(* tree.  A source is at most MaxSrcLines lines drawn from SourcePool.     *)
(***************************************************************************)
MaxSrcLines == 1

SourcePool == <<
    "say \"hello\"",
    "say \"\"",
    "say \"a b\"",
    "say \"a\\\"b\"",
    "say \"it's\"",
    "say \"a\\\\b\"",
    "say 1 +",
    "say 1)",
    "say (1",
    "say 1 2",
    "say \"abc",
    "say [1, 2",
    "let x = 1 + * 2",
    "return 1 -",
    "say 1 + 2",
    "let x = f(1, 2)",
    "x = [1, 2]",
    "return (a + b) * c",
    "print n",
    "foo",
    "f(1)",
    "for i in range(5): say i",
    "for i in range(n): say i",
    "for i in range(n + 1): say i",
    "for i in range(len(xs)): say i",
    "for i in range(1, n): say i",
    "for i in range(0, 10, 2): say i",
    "for i in xs: say i",
    "for i in 1..5: say i",
    "for i in range(n * 2): x = i",
    "for i in range(3):\n    say i\n    say 2",
    "while c:\n    say 1\n    say 2",
    "while c: say 1",
    "say 'a\"b'",
    "say f(1",
    "let x = [1 2",
    "say f(1 2)"
>>

MakeSource(choice) == Join([k \in DOMAIN choice |-> SourcePool[choice[k]]], "\n")

InitFront ==
    /\ \E n \in 1..MaxSrcLines : \E choice \in [1..n -> DOMAIN SourcePool] :
            source = MakeSource(choice)
    /\ input = [t \in Threads |-> Program(<<>>)]
    /\ hashOrder = IdentOrder
    /\ phase = "source"
    /\ InitCommon

\* parser.parse(source); the tree it returns is what the later steps work on
DoParse ==
    /\ phase = "source"
    /\ LET Outcome(r) ==
               /\ parsed' = r
               /\ IF r.status = "ok"
                  THEN input' = [input EXCEPT ![1] = r.program] /\ phase' = "parsed"
                  ELSE input' = input /\ phase' = "failed"
       IN Outcome(Parse(source))
    /\ UNCHANGED <<hashOrder, pc, idx, out, uid, env_stack, status, names, log, result,
                   rerun, again, pyOut, jsOut, pyExp, jsExp, source, unparsed, trip>>

\* unparse.unparse(parse(source))
DoUnparse ==
    /\ phase = "parsed"
    /\ unparsed' = [status |-> "ok", text |-> Unparse(parsed.program)]
    /\ phase' = "again"
    /\ UNCHANGED <<machine, rerun, again, pyOut, jsOut, pyExp, jsExp, source, parsed, trip>>

NextFront == DoParse \/ DoUnparse \/ DoTranspilePy \/ DoTranspileJs

SpecFront == InitFront /\ [][NextFront]_vars

(***************************************************************************)
(* The round trip: a source text is parsed, the tree expanded, the         *)
(* expanded tree unparsed, and the text parsed again.                      *)
(***************************************************************************)
MaxTripLines == 2

TripPool == <<
    "say x",
    "say \"hello\"",
    "say 'a\"b'",
    "let x = [1, 2]",
    "print f(1)",
    "return a + b",
    "f(1)",
    "foo",
    "while c: say 1",
    "for i in range(5): say i",
    "for i in xs: say i"
>>

InitTrip ==
    /\ \E n \in 1..MaxTripLines : \E choice \in [1..n -> DOMAIN TripPool] :
            source = Join([k \in DOMAIN choice |-> TripPool[choice[k]]], "\n")
    /\ input = [t \in Threads |-> Program(<<>>)]
    /\ hashOrder = IdentOrder
    /\ phase = "source"
    /\ InitCommon

\* the expand-macros output of cli.py: the parsed tree is expanded and the
\* expanded tree unparsed
DoExpandUnparse ==
    /\ phase = "parsed"
    /\ LET Outcome(e) ==
               IF e.status = "ok"
               THEN [status |-> "ok", tree |-> e.program, text |-> Unparse(e.program),
                     reparsed |-> NotRun]
               ELSE [status |-> e.status]
       IN trip' = Outcome(ExpandMacros(input[1], hashOrder))
    /\ phase' = "text"
    /\ UNCHANGED <<machine, rerun, again, pyOut, jsOut, pyExp, jsExp, source, parsed, unparsed>>

\* the round trip: the text of the expanded tree is parsed again
DoReparse ==
    /\ phase = "text"
    /\ trip.status = "ok"
    /\ trip' = [trip EXCEPT !.reparsed = Parse(trip.text)]
    /\ phase' = "trip"
    /\ UNCHANGED <<machine, rerun, again, pyOut, jsOut, pyExp, jsExp, source, parsed, unparsed>>

NextTrip == DoParse \/ DoExpandUnparse \/ DoReparse

SpecTrip == InitTrip /\ [][NextTrip]_vars

(***************************************************************************)
(* One invocation on a tree whose nodes are objects of the caller: each    *)
(* node of the input carries its identity, the path that leads to it.      *)
(***************************************************************************)
MaxOwnStmts == 3

\* the node as the object found at this path of the caller's tree
Object(node, path) ==
    [f \in DOMAIN node \cup {"obj"} |-> IF f = "obj" THEN path ELSE node[f]]

RECURSIVE Owned(_, _)
OwnedAll(nodes, path, from) ==
    [k \in DOMAIN nodes |-> Owned(nodes[k], Append(path, from + k))]

\* the tree with every node an object of the caller's tree
Owned(node, path) ==
    CASE node.kind = "Program" -> Object(Program(OwnedAll(node.statements, path, 0)), path)
      [] node.kind = "Say" -> Object(Say(Owned(node.text, Append(path, 1))), path)
      [] node.kind = "Assign" ->
            Object(Assign(node.name, Owned(node.value, Append(path, 1))), path)
      [] node.kind = "If" ->
            Object(If(Owned(node.cond, Append(path, 1)), OwnedAll(node.body, path, 1),
                      IF node.orelse.kind = "list"
                      THEN ListVal(OwnedAll(node.orelse.items, path, 1 + Len(node.body)))
                      ELSE NoneVal), path)
      [] node.kind = "DoBlock" -> Object(DoBlock(OwnedAll(node.body, path, 0)), path)
      [] node.kind = "MatchCase" ->
            Object(MatchCase(Owned(node.pattern, Append(path, 1)),
                             OwnedAll(node.body, path, 1)), path)
      [] node.kind = "Match" ->
            Object(Match(Owned(node.subject, Append(path, 1)), OwnedAll(node.cases, path, 1)),
                   path)
      [] node.kind = "LiteralPattern" ->
            Object(LiteralPattern(Owned(node.value, Append(path, 1))), path)
      [] node.kind = "ListPattern" -> Object(ListPattern(OwnedAll(node.elements, path, 0)), path)
      [] node.kind = "BinaryOp" ->
            Object(BinaryOp(node.op, Owned(node.left, Append(path, 1)),
                            Owned(node.right, Append(path, 2))), path)
      [] node.kind = "ListLiteral" ->
            Object(ListLiteral(OwnedAll(node.elements, path, 0)), path)
      [] node.kind = "MacroDef" ->
            Object(MacroDef(node.name, node.params, OwnedAll(node.body, path, 0)), path)
      [] node.kind = "MacroCall" ->
            Object(MacroCall(node.name, OwnedAll(node.args, path, 0)), path)
      [] node.kind \in {"WildcardPattern", "NamePattern", "LiteralString", "LiteralInt",
                        "NameExpr"} -> Object(node, path)

OwnPool == <<
    \* match x: case t: say t
    Match(NameExpr("x"), <<MatchCase(NamePattern("t"), <<Say(NameExpr("t"))>>)>>),
    \* macro m(v): match v: case [a, _]: say a
    MacroDef("m", <<"v">>,
             <<Match(NameExpr("v"),
                     <<MatchCase(ListPattern(<<NamePattern("a"), WildcardPattern>>),
                                 <<Say(NameExpr("a"))>>)>>)>>),
    \* @m(y)
    MacroCall("m", <<NameExpr("y")>>),
    \* do: match x: case 1: say 1
    DoBlock(<<Match(NameExpr("x"),
                    <<MatchCase(LiteralPattern(LiteralInt(1)), <<Say(LiteralInt(1))>>)>>)>>),
    \* say x + 1
    Say(BinaryOp("+", NameExpr("x"), LiteralInt(1))),
    \* y
    NameExpr("y"),
    \* if x: say 1 else: let t = [x]
    If(NameExpr("x"), <<Say(LiteralInt(1))>>,
       ListVal(<<Assign("t", ListLiteral(<<NameExpr("x")>>))>>)),
    \* macro m(v): say v ; let t = v
    MacroDef("m", <<"v">>, <<Say(NameExpr("v")), Assign("t", NameExpr("v"))>>),
    \* @m([1, y])
    MacroCall("m", <<ListLiteral(<<LiteralInt(1), NameExpr("y")>>)>>)
>>

InitOwn ==
    /\ \E n \in 0..MaxOwnStmts : \E choice \in [1..n -> DOMAIN OwnPool] :
            input = [t \in Threads |->
                        IF t = 1
                        THEN Owned(Program([k \in DOMAIN choice |-> OwnPool[choice[k]]]), <<>>)
                        ELSE Program(<<>>)]
    /\ hashOrder \in HashOrders
    /\ phase = "expand"
    /\ source = ""
    /\ InitCommon

NextOwn == Start(1) \/ Step(1) \/ Finish(1)

SpecOwn == InitOwn /\ [][NextOwn]_vars

(***************************************************************************)
(* One invocation on programs whose macros are called from several scopes, *)
(* with arguments that name other parameters or names the body binds, and  *)
(* with fewer or more arguments than parameters.                           *)
(***************************************************************************)
MaxCallStmts == 3

CallPool == <<
    \* macro M(): @h()
    MacroDef("M", <<>>, <<MacroCall("h", <<>>)>>),
    \* macro h(): say 1
    MacroDef("h", <<>>, <<Say(LiteralInt(1))>>),
    \* do: macro h(): say 2 ; @M()
    DoBlock(<<MacroDef("h", <<>>, <<Say(LiteralInt(2))>>), MacroCall("M", <<>>)>>),
    \* @M()
    MacroCall("M", <<>>),
    \* macro m(x, y): say x ; say y - x ; let t = x
    MacroDef("m", <<"x", "y">>,
             <<Say(NameExpr("x")), Say(BinaryOp("-", NameExpr("y"), NameExpr("x"))),
               Assign("t", NameExpr("x"))>>),
    \* @m(y, x + t)
    MacroCall("m", <<NameExpr("y"), BinaryOp("+", NameExpr("x"), NameExpr("t"))>>),
    \* @m(t)
    MacroCall("m", <<NameExpr("t")>>),
    \* @m(1, t + y, 3)
    MacroCall("m", <<LiteralInt(1), BinaryOp("+", NameExpr("t"), NameExpr("y")),
                     LiteralInt(3)>>),
    \* @m()
    MacroCall("m", <<>>)
>>

InitCall ==
    /\ \E n \in 0..MaxCallStmts : \E choice \in [1..n -> DOMAIN CallPool] :
            input = [t \in Threads |->
                        IF t = 1 THEN Program([k \in DOMAIN choice |-> CallPool[choice[k]]])
                        ELSE Program(<<>>)]
    /\ hashOrder \in HashOrders
    /\ phase = "expand"
    /\ source = ""
    /\ InitCommon

NextCall == Start(1) \/ Step(1) \/ Finish(1)

SpecCall == InitCall /\ [][NextCall]_vars

(***************************************************************************)
(* One invocation on programs whose macros call macros: a macro that calls *)
(* itself, two macros that call each other, and chains that end.           *)
(***************************************************************************)
MaxRecStmts == 3

RecPool == <<
    \* macro r(): let a = 1 ; @r()
    MacroDef("r", <<>>, <<Assign("a", LiteralInt(1)), MacroCall("r", <<>>)>>),
    \* @r()
    MacroCall("r", <<>>),
    \* macro p(): @q()
    MacroDef("p", <<>>, <<MacroCall("q", <<>>)>>),
    \* macro q(): let b = 2 ; @p()
    MacroDef("q", <<>>, <<Assign("b", LiteralInt(2)), MacroCall("p", <<>>)>>),
    \* @p()
    MacroCall("p", <<>>),
    \* macro r(): say 1
    MacroDef("r", <<>>, <<Say(LiteralInt(1))>>),
    \* macro q(): @r()
    MacroDef("q", <<>>, <<MacroCall("r", <<>>)>>),
    \* say 0
    Say(LiteralInt(0)),
    \* @q()
    MacroCall("q", <<>>)
>>

InitRec ==
    /\ \E n \in 0..MaxRecStmts : \E choice \in [1..n -> DOMAIN RecPool] :
            input = [t \in Threads |->
                        IF t = 1 THEN Program([k \in DOMAIN choice |-> RecPool[choice[k]]])
                        ELSE Program(<<>>)]
    /\ hashOrder \in HashOrders
    /\ phase = "expand"
    /\ source = ""
    /\ InitCommon

NextRec == Start(1) \/ Step(1) \/ Finish(1)

SpecRec == InitRec /\ [][NextRec]_vars

\* the position of the thread inside expand_macros moves on: the call is
\* entered, the loop goes to another statement, or the call is left
Proceeds(t) ==
    /\ pc[t] \in {"idle", "running"}
    /\ pc' \in [Threads -> {"idle", "running", "returned", "raised"}]
    /\ idx' \in [Threads -> 0..(Len(input[t].statements) + 1)]
    /\ <<pc'[t], idx'[t]>> # <<pc[t], idx[t]>>

\* expand_macros is one sequential call on a thread that is scheduled: while
\* it is inside the call, its position does not stand still for ever.
SpecRecFair == SpecRec /\ WF_<<pc, idx>>(Proceeds(1))


(***************************************************************************)
(* Properties                                                              *)
(***************************************************************************)
RECURSIVE HasMacroNode(_)
AnyMacroNode(stmts) == \E k \in DOMAIN stmts : HasMacroNode(stmts[k])

\* a MacroDef or MacroCall node occurs in the tree, at any depth
HasMacroNode(node) ==
    CASE node.kind \in {"MacroDef", "MacroCall"} -> TRUE
      [] node.kind = "Program" -> AnyMacroNode(node.statements)
      [] node.kind \in {"FunctionDef", "DoBlock", "While", "ForLoop", "MatchCase"} ->
            AnyMacroNode(node.body)
      [] node.kind = "If" ->
            AnyMacroNode(node.body) \/ (node.orelse.kind = "list" /\ AnyMacroNode(node.orelse.items))
      [] node.kind = "Match" -> AnyMacroNode(node.cases)
      [] OTHER -> FALSE

\* pat occurs in text
Contains(text, pat) ==
    \E i \in 1..(Len(text) - Len(pat) + 1) : SubSeq(text, i, i + Len(pat) - 1) = pat

RECURSIVE Identifiers(_)
IdentifiersOfAll(nodes) == UNION {Identifiers(nodes[k]) : k \in DOMAIN nodes}

\* every identifier that occurs in the tree, as a binding or as a reference
Identifiers(node) ==
    CASE node.kind = "Program" -> IdentifiersOfAll(node.statements)
      [] node.kind = "NameExpr" -> {node.id}
      [] node.kind = "ListLiteral" -> IdentifiersOfAll(node.elements)
      [] node.kind = "FunctionCall" -> {node.name} \cup IdentifiersOfAll(node.args)
      [] node.kind = "BinaryOp" -> Identifiers(node.left) \cup Identifiers(node.right)
      [] node.kind = "UnaryOp" -> Identifiers(node.operand)
      [] node.kind = "Await" -> Identifiers(node.expr)
      [] node.kind \in {"Say", "Print"} -> Identifiers(node.text)
      [] node.kind = "Assign" -> {node.name} \cup Identifiers(node.value)
      [] node.kind = "Return" -> Identifiers(node.value)
      [] node.kind = "If" ->
            Identifiers(node.cond) \cup IdentifiersOfAll(node.body)
                \cup (IF node.orelse.kind = "list" THEN IdentifiersOfAll(node.orelse.items) ELSE {})
      [] node.kind = "While" -> Identifiers(node.cond) \cup IdentifiersOfAll(node.body)
      [] node.kind = "ForLoop" ->
            {node.var} \cup Identifiers(node.end) \cup IdentifiersOfAll(node.body)
      [] node.kind = "FunctionDef" ->
            {node.name} \cup SeqToSet(node.params) \cup IdentifiersOfAll(node.body)
      [] node.kind = "DoBlock" -> IdentifiersOfAll(node.body)
      [] node.kind = "MatchCase" -> PatternNames(node.pattern) \cup IdentifiersOfAll(node.body)
      [] node.kind = "Match" -> Identifiers(node.subject) \cup IdentifiersOfAll(node.cases)
      [] node.kind = "MacroDef" -> SeqToSet(node.params) \cup IdentifiersOfAll(node.body)
      [] node.kind = "MacroCall" -> IdentifiersOfAll(node.args)
      [] OTHER -> {}

\* The scope stack the scoping rule prescribes after each event of a
\* history: one frame per block being expanded, on top of the global frame,
\* a definition entered in the frame of the innermost open block.
ScopeAfter(lg) ==
    LET R[k \in 0..Len(lg)] ==
            IF k = 0 THEN <<EmptyFrame>>
            ELSE CASE lg[k].ev = "enter" -> Append(R[k - 1], EmptyFrame)
                   [] lg[k].ev = "exit" -> SubSeq(R[k - 1], 1, Len(R[k - 1]) - 1)
                   [] lg[k].ev = "def" ->
                        [R[k - 1] EXCEPT ![Len(R[k - 1])] = (lg[k].name :> lg[k].macro) @@ @]
                   [] OTHER -> R[k - 1]
    IN R

FramesWith(name, stack) == {j \in DOMAIN stack : name \in DOMAIN stack[j]}

Innermost(name, stack) ==
    LET top == CHOOSE j \in FramesWith(name, stack) : \A i \in FramesWith(name, stack) : i <= j
    IN stack[top][name]

Terminated(t) == pc[t] \in {"returned", "raised"}

\* C1: when expand_macros returns, the returned tree holds no MacroDef and
\* no MacroCall node at any depth, and the text the JS generator returns
\* holds no `__macro_` helper.
C1_NoMacroNodeRemains ==
    /\ pc[1] = "returned" => ~HasMacroNode(result[1])
    /\ jsOut.status = "ok" => ~Contains(jsOut.text, "__macro_")

\* C2: every name generated for a binding of a macro body differs from every
\* identifier of the input program, and the identifiers of the statements
\* outside macro bodies are still in the expanded tree under their own names.
C2_Hygiene ==
    pc[1] = "returned" =>
        /\ \A k \in DOMAIN names[1] : names[1][k] \notin Identifiers(input[1])
        /\ \A k \in DOMAIN input[1].statements :
                LET s == input[1].statements[k] IN
                ~HasMacroNode(s) => Identifiers(s) \subseteq Identifiers(result[1])

\* C3: a MacroDef is registered in the frame of the block that directly
\* contains it and in no other frame; a MacroCall whose name is in no frame
\* of the scope stack ends the expansion with the undefined-macro error and
\* no Program, and no other call does.
C3_Scoping ==
    \A t \in Threads :
        LET lg == log[t]
            R == ScopeAfter(lg)
            Unresolved(k) == lg[k].ev = "call" /\ FramesWith(lg[k].name, R[k - 1]) = {}
        IN
        /\ \A k \in DOMAIN lg : lg[k].ev = "def" => lg[k].after = R[k]
        /\ \A k \in DOMAIN lg : lg[k].ev = "call" => lg[k].stack = R[k - 1]
        /\ \A k \in DOMAIN lg : Unresolved(k) =>
                /\ pc[t] = "raised" /\ status[t] = "undefined" /\ result[t] = NoneVal
                /\ \A j \in DOMAIN lg : j > k => lg[j].ev = "exit"
        /\ \A k \in DOMAIN lg : (lg[k].ev = "call" /\ ~Unresolved(k)) => lg[k].macro.kind = "MacroDef"
        /\ (pc[t] = "raised" /\ status[t] = "undefined") => \E k \in DOMAIN lg : Unresolved(k)

\* a macro defined only inside the body of f is called at the top level
C3_Witness ==
    /\ input[1].statements = <<StmtPool[4], StmtPool[5]>>
    /\ pc[1] = "raised" /\ status[1] = "undefined" /\ result[1] = NoneVal
    /\ \E k \in DOMAIN log[1] : log[1][k].ev = "def" /\ log[1][k].name = "inner"

\* C4: a MacroCall resolves to the definition in the innermost frame that
\* holds the name, the frames being those of the blocks open at the call: an
\* inner definition hides an outer one inside its block only.
C4_Shadowing ==
    \A t \in Threads :
        LET lg == log[t]
            R == ScopeAfter(lg)
        IN \A k \in DOMAIN lg :
              (lg[k].ev = "call" /\ FramesWith(lg[k].name, R[k - 1]) # {}) =>
                  lg[k].macro = Innermost(lg[k].name, R[k - 1])

\* a call inside a block resolved to the block's own definition while an
\* outer one existed, and a later call outside resolved to the outer one
C4_Witness ==
    \E i, j \in DOMAIN log[1] :
        /\ i < j
        /\ log[1][i].ev = "call" /\ log[1][j].ev = "call"
        /\ log[1][i].name = log[1][j].name
        /\ Cardinality(FramesWith(log[1][i].name, log[1][i].stack)) >= 2
        /\ Len(log[1][j].stack) < Len(log[1][i].stack)
        /\ log[1][i].macro # log[1][j].macro
        /\ log[1][j].macro = log[1][j].stack[2][log[1][j].name]
        /\ pc[1] = "returned"

\* C5: in one invocation the counter never decreases, it counts the names
\* generated, and no two generated names are equal.
C5_FreshNamesDistinct ==
    [][ /\ uid'[1] >= uid[1]
        /\ uid'[1] = Len(names'[1])
        /\ \A i, j \in DOMAIN names'[1] : i # j => names'[1][i] # names'[1][j] ]_vars

\* names from two macros and from a repeated call, nested expansion included
C5_Witness ==
    /\ pc[1] = "returned"
    /\ Len(names[1]) >= 3
    /\ \E k \in DOMAIN log[1] : log[1][k].ev = "call" /\ Len(log[1][k].stack) >= 2
                                 /\ log[1][k].name = "m"
    /\ \E k \in DOMAIN log[1] : log[1][k].ev = "call" /\ log[1][k].name = "inner"

\* C6: a second run of expand_macros on the same input returns the same
\* tree, with the same fresh names.
C6_Deterministic ==
    (rerun # NotRun /\ pc[1] = "returned") => rerun.program = result[1]

\* C7: an invocation whose steps interleave with another invocation's
\* returns the tree, or raises the error, of a run of its own.
C7_Isolation ==
    \A t \in Threads :
        Terminated(t) =>
                LET Same(alone) ==
                    /\ result[t] = alone.program
                    /\ status[t] = alone.status
                    /\ names[t] = alone.st.names
            IN Same(ExpandMacros(input[t], hashOrder))

\* both invocations have generated names and are past their first statement
C7_Witness ==
    /\ pc[1] = "returned" /\ pc[2] = "running" /\ idx[2] > 1
    /\ Len(names[1]) > 0 /\ Len(names[2]) > 0
    /\ input[1] # input[2]

\* C8: expanding the tree expand_macros returned returns an equal tree.
C8_Idempotent ==
    (again # NotRun /\ again.status = "ok") => again.program = result[1]

\* C9: when macro expansion fails on a program, both generators fail with
\* the error and return no text.
C9_ExpansionFailureIsFatal ==
    (pc[1] = "raised" /\ phase = "js") =>
        /\ pyOut.status = status[1] /\ pyOut.text = ""
        /\ jsOut.status = status[1] /\ jsOut.text = ""

Lines(text) == StripAll(Split(text, "\n"))

\* what a line of Python output is, for the shape of a lowered Match
PyToken(l) ==
    CASE StartsWith(l, "__ms_match_val = ") -> "assign"
      [] StartsWith(l, "if ") -> "if"
      [] StartsWith(l, "elif ") -> "else-if"
      [] StartsWith(l, "print(") -> "say " \o StrSlice(l, 6, Len(l) - 1)
      [] OTHER -> ""

\* what a line of JS output is, for the shape of a lowered Match
JsToken(l) ==
    CASE StartsWith(l, "const __ms_match_val = ") -> "assign"
      [] StartsWith(l, "if (") -> "if"
      [] StartsWith(l, "else if (") -> "else-if"
      [] StartsWith(l, "console.log(") -> "say " \o StrSlice(l, 12, Len(l) - 2)
      [] OTHER -> ""

Skeleton(lines, Token(_)) ==
    SelectSeq([k \in DOMAIN lines |-> Token(lines[k])], LAMBDA tok : tok # "")

RECURSIVE Flatten(_)
Flatten(seqs) == IF seqs = <<>> THEN <<>> ELSE Head(seqs) \o Flatten(Tail(seqs))

\* the shape the statement is to have in either output: for a Match, one
\* assignment, then for each case in source order its branch and its body
ExpectedSkeleton(stmt) ==
    CASE stmt.kind = "Say" -> <<"say " \o ToString(stmt.text.value)>>
      [] stmt.kind = "Match" ->
            <<"assign">> \o
            Flatten([k \in DOMAIN stmt.cases |->
                        <<IF k = 1 THEN "if" ELSE "else-if",
                          "say " \o ToString(stmt.cases[k].body[1].text.value)>>])

ExpectedSkeletonOfProgram(program) ==
    Flatten([k \in DOMAIN program.statements |-> ExpectedSkeleton(program.statements[k])])

Headers(lines, Token(_)) == SelectSeq(lines, LAMBDA l : Token(l) \in {"if", "else-if"})

\* the condition the pattern is to give, as far as the text shows it
ConditionFits(header, pat, true) ==
    CASE pat.kind \in {"WildcardPattern", "NamePattern"} -> Contains(header, true)
      [] pat.kind = "LiteralPattern" ->
            /\ Contains(header, "__ms_match_val ==")
            /\ Contains(header, IF pat.value.kind = "LiteralInt"
                                THEN ToString(pat.value.value) ELSE pat.value.value)
      [] pat.kind = "ListPattern" ->
            /\ Contains(header, "__ms_match_val")
            /\ Contains(header, "== " \o ToString(Len(pat.elements)))

\* C12: in both generators the condition of a branch is the one its pattern
\* gives: always true for a wildcard or a name, an equality test against
\* the literal for a literal (integer or string), and is-list and
\* length-equals-N for a list pattern of N elements.
C12_PatternConditions ==
    LET cases == input[1].statements[1].cases
        Fits(headers, true) ==
            /\ Len(headers) = Len(cases)
            /\ \A k \in DOMAIN cases : ConditionFits(headers[k], cases[k].pattern, true)
    IN  (Len(input[1].statements) = 1 /\ input[1].statements[1].kind = "Match") =>
            /\ pyOut # NotRun => Fits(Headers(Lines(pyOut.text), PyToken), "True")
            /\ jsOut # NotRun => Fits(Headers(Lines(jsOut.text), JsToken), "true")

\* how many times the one-character string c occurs in s
Count(s, c) == Cardinality({i \in 1..Len(s) : SubSeq(s, i, i) = c})

\* the source line is `for v in range(...): s`
IsRangeFor(line) == StartsWith(line, "for ") /\ Contains(line, " in range(")

\* C13: every source statement `for v in range(args): s` is generated as a
\* counting loop, `for (let v=...` in JS and `for v in range(...)` in
\* Python, whatever the shape of the arguments.
C13_RangeIsCountingLoop ==
    LET src == Split(source, "\n")
        rangeFors == Cardinality({k \in DOMAIN src : IsRangeFor(src[k])})
        Counting(lines, head, mark) ==
            Cardinality({k \in DOMAIN lines :
                            StartsWith(lines[k], head) /\ Contains(lines[k], mark)})
    IN  /\ jsOut # NotRun => Counting(Lines(jsOut.text), "for (let ", "<") >= rangeFors
        /\ pyOut # NotRun => Counting(Lines(pyOut.text), "for ", " in range(") >= rangeFors

\* C14: for each generator, the text generated from a program and the text
\* generated from its expansion are the same.
C14_ReexpansionIsNoOp ==
    phase = "expanded" => (pyExp = pyOut /\ jsExp = jsOut)

\* C15: the source `say "s"` parses to the one statement
\* Say(LiteralString(s)), and unparse of the tree gives `say "s"` back.
\* s is the text between the outer quotes, read verbatim or with \" as ".
C15_SayStringRoundTrip ==
    LET s == StrSlice(source, 5, Len(source) - 1)
    IN  (Len(source) >= 6 /\ StartsWith(source, "say \"") /\ EndsWith(source, "\"")
         /\ ~Contains(source, "\n")) =>
            /\ parsed # NotRun =>
                  /\ parsed.status = "ok"
                  /\ parsed.program \in {Program(<<Say(LiteralString(s))>>),
                                         Program(<<Say(LiteralString(Replace(s, "\\\"", "\"")))>>)}
            /\ unparsed # NotRun => unparsed.text \in {source, source \o "\n"}

RECURSIVE HasAbsentOperand(_)
AnyAbsentOperand(nodes) == \E k \in DOMAIN nodes : HasAbsentOperand(nodes[k])

\* some operator of the tree has no operand where it needs one
HasAbsentOperand(node) ==
    CASE node.kind = "Program" -> AnyAbsentOperand(node.statements)
      [] node.kind = "BinaryOp" ->
            \/ node.left = NoneVal \/ node.right = NoneVal
            \/ (node.left # NoneVal /\ HasAbsentOperand(node.left))
            \/ (node.right # NoneVal /\ HasAbsentOperand(node.right))
      [] node.kind \in {"Say", "Print"} -> node.text = NoneVal \/ HasAbsentOperand(node.text)
      [] node.kind \in {"Assign", "Return"} ->
            node.value = NoneVal \/ HasAbsentOperand(node.value)
      [] node.kind = "ForLoop" ->
            node.end = NoneVal \/ HasAbsentOperand(node.end) \/ AnyAbsentOperand(node.body)
      [] node.kind = "FunctionCall" -> AnyAbsentOperand(node.args)
      [] node.kind = "ListLiteral" -> AnyAbsentOperand(node.elements)
      [] OTHER -> FALSE

\* the line ends in a binary operator, or its parentheses do not pair up
MalformedLine(line) ==
    \/ \E op \in {"+", "-", "*", "/"} : EndsWith(Strip(line), op)
    \/ (~Contains(line, "\"") /\ Count(line, "(") # Count(line, ")"))

\* C16: the parser returns no tree for a statement whose expression lacks an
\* operand or has an unpaired parenthesis, and no tree it returns has an
\* operator with an absent operand.
C16_MalformedExpressionFails ==
    parsed # NotRun =>
        /\ (\E k \in DOMAIN Split(source, "\n") : MalformedLine(Split(source, "\n")[k]))
                => parsed.status # "ok"
        /\ parsed.status = "ok" => ~HasAbsentOperand(parsed.program)

\* the nodes directly below a node: statements, expressions and patterns
Children(node) ==
    CASE node.kind = "Program" -> node.statements
      [] node.kind \in {"Say", "Print"} -> <<node.text>>
      [] node.kind \in {"Assign", "Return"} -> <<node.value>>
      [] node.kind = "If" ->
            <<node.cond>> \o node.body \o
            (IF node.orelse.kind = "list" THEN node.orelse.items ELSE <<>>)
      [] node.kind = "While" -> <<node.cond>> \o node.body
      [] node.kind = "ForLoop" -> <<node.end>> \o node.body
      [] node.kind \in {"FunctionDef", "DoBlock", "MacroDef"} -> node.body
      [] node.kind = "Match" -> <<node.subject>> \o node.cases
      [] node.kind = "MatchCase" -> <<node.pattern>> \o node.body
      [] node.kind = "ListPattern" -> node.elements
      [] node.kind = "LiteralPattern" -> <<node.value>>
      [] node.kind \in {"FunctionCall", "MacroCall"} -> node.args
      [] node.kind = "BinaryOp" -> <<node.left, node.right>>
      [] node.kind = "UnaryOp" -> <<node.operand>>
      [] node.kind = "Await" -> <<node.expr>>
      [] node.kind = "ListLiteral" -> node.elements
      [] OTHER -> <<>>

RECURSIVE Occurrences(_, _)
RECURSIVE OccurrencesIn(_, _)

\* how many subtrees of the nodes are equal to target
OccurrencesIn(nodes, target) ==
    IF nodes = <<>> THEN 0
    ELSE Occurrences(Head(nodes), target) + OccurrencesIn(Tail(nodes), target)

Occurrences(node, target) ==
    IF node = target THEN 1 ELSE OccurrencesIn(Children(node), target)

\* the splices of the history: one for each macro call that was replaced
Splices(lg) == {k \in DOMAIN lg : lg[k].ev = "splice"}

\* the macro's body holds no macro of its own, the call has an argument for
\* each parameter, and no argument mentions a name of the macro
PlainCall(e) ==
    /\ ~AnyMacroNode(e.macro.body)
    /\ Len(e.args) = Len(e.macro.params)
    /\ IdentifiersOfAll(e.args) \cap IdentifiersOfAll(e.macro.body) = {}
    /\ IdentifiersOfAll(e.args) \cap SeqToSet(e.macro.params) = {}
    /\ \A i \in DOMAIN e.args : OccurrencesIn(e.macro.body, e.args[i]) = 0

\* C17: in the statements spliced for a call of M(p1..pn) with a1..an,
\* every NameExpr occurrence of pi in M's body is replaced by a copy of ai:
\* no NameExpr of pi is left, and ai occurs once for each occurrence of pi.
C17_ParameterSubstitution ==
    \A k \in Splices(log[1]) :
        LET e == log[1][k] IN
        PlainCall(e) =>
            \A i \in DOMAIN e.args :
                /\ OccurrencesIn(e.res, NameExpr(e.macro.params[i])) = 0
                /\ OccurrencesIn(e.res, e.args[i])
                       = OccurrencesIn(e.macro.body, NameExpr(e.macro.params[i]))

\* C18: in the statements spliced for a call, no occurrence of a renamed
\* name is left under its old name, in a declaration or in a reference, the
\* callee name of a call included.
C18_RenamingComplete ==
    \A k \in Splices(log[1]) :
        LET e == log[1][k] IN
        (~AnyMacroNode(e.macro.body) /\ IdentifiersOfAll(e.args) \cap DOMAIN e.rename_map = {})
            => IdentifiersOfAll(e.res) \cap DOMAIN e.rename_map = {}

RECURSIVE BoundNames(_)
BoundNamesOfAll(nodes) == UNION {BoundNames(nodes[k]) : k \in DOMAIN nodes}

\* every name a tree binds, at any depth: assignment targets, function names
\* and parameters, loop variables, names of match patterns
BoundNames(node) ==
    (CASE node.kind = "Assign" -> {node.name}
       [] node.kind = "FunctionDef" -> {node.name} \cup SeqToSet(node.params)
       [] node.kind = "ForLoop" -> {node.var}
       [] node.kind = "NamePattern" -> {node.name}
       [] OTHER -> {})
    \cup BoundNamesOfAll(Children(node))

\* C19: the names renamed for a call are the names bound anywhere in the
\* macro's body, match patterns and the bodies of match cases included,
\* less the macro's parameters.
C19_RenamedNamesAreBoundNames ==
    \A k \in Splices(log[1]) :
        LET e == log[1][k] IN
        ~AnyMacroNode(e.macro.body) =>
            DOMAIN e.rename_map = BoundNamesOfAll(e.macro.body) \ SeqToSet(e.macro.params)

StatementKinds ==
    {"Say", "Print", "Assign", "If", "While", "ForLoop", "FunctionDef", "Return",
     "DoBlock", "AgentCall", "Match", "MacroDef", "MacroCall"}

RECURSIVE ShapeOf(_)
ShapesOf(stmts) == [k \in DOMAIN stmts |-> ShapeOf(stmts[k])]

\* a statement without its expressions: its kind, and for a block the
\* shapes of the statements of its body
ShapeOf(stmt) ==
    IF stmt.kind \in {"DoBlock", "FunctionDef", "While", "ForLoop"}
    THEN <<stmt.kind, ShapesOf(stmt.body)>>
    ELSE IF stmt.kind \in StatementKinds THEN <<stmt.kind>>
    ELSE <<"expression">>

RECURSIVE ExpectedShapes(_, _, _)

\* the shapes a statement list is to have once every call is replaced by
\* the statements of its macro, in body order, at the position of the call.
\* env maps the macros defined so far, in this block or around it.
ExpectedShapes(stmts, k, env) ==
    IF k > Len(stmts) THEN <<>>
    ELSE LET s == stmts[k] IN
         CASE s.kind = "MacroDef" -> ExpectedShapes(stmts, k + 1, (s.name :> s) @@ env)
           [] s.kind = "MacroCall" ->
                ShapesOf(env[s.name].body) \o ExpectedShapes(stmts, k + 1, env)
           [] s.kind \in {"DoBlock", "FunctionDef", "While", "ForLoop"} ->
                <<<<s.kind, ExpectedShapes(s.body, 1, env)>>>>
                    \o ExpectedShapes(stmts, k + 1, env)
           [] OTHER -> <<ShapeOf(s)>> \o ExpectedShapes(stmts, k + 1, env)

\* no macro of the program has a macro definition or call in its body, and
\* no If or Match holds one
Flat(program) ==
    \A k \in DOMAIN program.statements :
        LET s == program.statements[k] IN
        /\ s.kind = "MacroDef" => ~AnyMacroNode(s.body)
        /\ s.kind = "DoBlock" =>
              \A j \in DOMAIN s.body : s.body[j].kind = "MacroDef" => ~AnyMacroNode(s.body[j].body)
        /\ s.kind \in {"If", "Match"} => ~HasMacroNode(s)

\* C20: in the list built so far, and in the tree returned, every call is
\* replaced by the statements of its macro's body, as many as the body has
\* and in body order, at the position of the call; the other statements
\* keep their order, and a call of a macro with an empty body leaves nothing.
C20_Splicing ==
    (Flat(input[1]) /\ pc[1] \in {"running", "returned"}) =>
        /\ ShapesOf(out[1])
              = ExpectedShapes(SubSeq(input[1].statements, 1, idx[1] - 1), 1, <<>>)
        /\ pc[1] = "returned" =>
              ShapesOf(result[1].statements) = ExpectedShapes(input[1].statements, 1, <<>>)

\* a call replaced by two statements with a statement after it, and in a
\* block a call of a macro with an empty body replaced by nothing
C20_Witness ==
    /\ pc[1] = "returned"
    /\ Len(input[1].statements) = 3
    /\ input[1].statements[1] = HygPool[5]
    /\ input[1].statements[2].kind = "MacroCall"
    /\ input[1].statements[3] = HygPool[8]
    /\ Len(result[1].statements) = 3
    /\ result[1].statements[3] = DoBlock(<<Say(LiteralInt(7))>>)

RECURSIVE MacroDefsOf(_)
MacroDefsIn(nodes) == UNION {MacroDefsOf(nodes[k]) : k \in DOMAIN nodes}

\* the macro definitions of a tree, at any depth
MacroDefsOf(node) ==
    (IF node.kind = "MacroDef" THEN {node} ELSE {}) \cup MacroDefsIn(Children(node))

RECURSIVE CalledNames(_)
CalledNamesIn(nodes) == UNION {CalledNames(nodes[k]) : k \in DOMAIN nodes}

\* the names of the macro calls of a tree, at any depth
CalledNames(node) ==
    (IF node.kind = "MacroCall" THEN {node.name} ELSE {}) \cup CalledNamesIn(Children(node))

\* name -> name: a macro of that name has a call of that name in its body
CallEdges(defs) == UNION {{<<d.name, c>> : c \in CalledNamesIn(d.body)} : d \in defs}

RECURSIVE Reach(_, _)
\* the pairs of names joined by a path of at most 2^k edges
Reach(E, k) ==
    IF k = 0 THEN E
    ELSE Reach(E \cup {<<z[1][1], z[2][2]>> : z \in {w \in E \X E : w[1][2] = w[2][1]}},
               k - 1)

\* some macro name of the definitions reaches itself through the calls in
\* the bodies
CallCycle(defs) ==
    \E d \in defs : <<d.name, d.name>> \in Reach(CallEdges(defs), Cardinality(defs))

\* no expansion of the program can reach a call of a macro being expanded
NonRecursive(program) == ~CallCycle(MacroDefsOf(program))

Calls(lg) == {k \in DOMAIN lg : lg[k].ev = "call" /\ lg[k].macro # NoneVal}

\* the macros a call can resolve to with this scope stack
Visible(stack) == UNION {{stack[j][n] : n \in DOMAIN stack[j]} : j \in DOMAIN stack}

\* the call resolves to a macro whose body calls it again, directly or
\* through other macros
RecursiveCall(e) ==
    <<e.name, e.name>> \in Reach(CallEdges(Visible(e.stack)), Cardinality(Visible(e.stack)))

\* C22: expansion has no cycle or depth guard: once a call of a macro whose
\* body calls itself, directly or through another macro, is expanded, the
\* invocation never returns a Program: it ends in the interpreter's
\* recursion error, and the fresh-name counter has advanced once for each
\* level that was entered of a macro whose body binds a name.
C22_NoRecursionGuard ==
    \A k \in Calls(log[1]) :
        RecursiveCall(log[1][k]) =>
            /\ pc[1] = "raised"
            /\ status[1] = "recursion"
            /\ result[1] = NoneVal
            /\ uid[1] >= Cardinality({j \in Calls(log[1]) :
                              /\ \E later \in Calls(log[1]) : later > j
                              /\ BoundNamesOfAll(log[1][j].macro.body) # {}})

\* p and q call each other: the levels alternate until the stack is
\* exhausted, and each level of q drew a fresh name for b
C22_Witness ==
    /\ pc[1] = "raised"
    /\ status[1] = "recursion"
    /\ input[1].statements = <<RecPool[3], RecPool[4], RecPool[5]>>
    /\ Cardinality(Calls(log[1])) = RecursionLimit + 1
    /\ uid[1] = RecursionLimit \div 2
    /\ uid[1] >= 2

RECURSIVE SharesInputObject(_)
\* some node of the tree, at any depth, is an object of the caller's tree
SharesInputObject(node) ==
    \/ "obj" \in DOMAIN node
    \/ \E k \in DOMAIN Children(node) : SharesInputObject(Children(node)[k])

\* C23: the tree returned by expand_macros shares no node object with the
\* input tree: every statement, expression and pattern node of the output,
\* the patterns of Match cases included, is a fresh copy (and so is every
\* node of the list built so far).
C23_Ownership ==
    /\ \A k \in DOMAIN out[1] : ~SharesInputObject(out[1][k])
    /\ pc[1] = "returned" => ~SharesInputObject(result[1])

\* how many times pat occurs in text
OccurrencesOfText(text, pat) ==
    Cardinality({i \in 1..(Len(text) - Len(pat) + 1) : StrSlice(text, i - 1, i - 1 + Len(pat)) = pat})

RECURSIVE OutputStatements(_)
\* how many Say and Print statements a tree holds, at any depth
OutputStatements(node) ==
    LET below == Children(node)
        Sum[k \in 0..Len(below)] ==
            IF k = 0 THEN 0 ELSE Sum[k - 1] + OutputStatements(below[k])
    IN (IF node.kind \in {"Say", "Print"} THEN 1 ELSE 0) + Sum[Len(below)]

\* C24: for an expanded tree without macro nodes, each Say or Print
\* statement, at any nesting depth, is one console-output call of the Python
\* text (print) and one of the JS text (console.log): both texts hold as
\* many output calls as the tree holds Say and Print statements.
C24_EveryOutputLowered ==
    (phase = "expanded" /\ ~HasMacroNode(result[1])) =>
        /\ OccurrencesOfText(jsExp.text, "console.log(") = OutputStatements(result[1])
        /\ OccurrencesOfText(pyExp.text, "print(") = OutputStatements(result[1])

RECURSIVE StatementCount(_)
\* how many statements a statement list holds, the statements of the bodies
\* included
StatementCount(stmts) ==
    LET Nested(n) ==
            CASE n.kind \in {"While", "ForLoop", "FunctionDef", "DoBlock", "MacroDef"} ->
                    StatementCount(n.body)
              [] n.kind = "If" ->
                    StatementCount(n.body)
                        + (IF n.orelse.kind = "list" THEN StatementCount(n.orelse.items) ELSE 0)
              [] OTHER -> 0
        Sum[k \in 0..Len(stmts)] ==
            IF k = 0 THEN 0 ELSE Sum[k - 1] + 1 + Nested(stmts[k])
    IN Sum[Len(stmts)]

\* the lines of the text that are not blank
NonBlankLines(text) ==
    LET lines == Split(text, "\n")
    IN Cardinality({k \in DOMAIN lines : Strip(lines[k]) # ""})

\* C25: the fallback parser never silently discards source: when parse
\* returns a tree, every non-blank source line is represented in it, a
\* second and later body line under a header included, so the tree holds a
\* statement at least for each non-blank line.
C25_NothingDiscarded ==
    (parsed # NotRun /\ parsed.status = "ok") =>
        StatementCount(parsed.program.statements) >= NonBlankLines(source)

\* C26: for a macro-free tree T that expand_macros returns for a parsed
\* program, unparse(T) holds no macro construct and no unsupported
\* placeholder, and parse(unparse(T)) is structurally equal to T.
C26_UnparseRoundTrip ==
    (phase = "trip" /\ trip.status = "ok" /\ ~HasMacroNode(trip.tree)) =>
        /\ ~Contains(trip.text, "# unsupported")
        /\ ~Contains(trip.text, "macro ") /\ ~Contains(trip.text, "@")
        /\ trip.reparsed = [status |-> "ok", program |-> trip.tree]

\* C30: the fallback parser terminates on every finite input text, a call
\* or a list without its closing bracket or without a comma between its
\* elements included: parse never diverges.
C30_ParserTerminates ==
    parsed # NotRun => parsed.status # "diverges"

\* the calls being expanded after each event of the history, outermost
\* first: a call is open from its lookup to its splice
OpenCalls(lg) ==
    LET O[k \in 0..Len(lg)] ==
            IF k = 0 THEN <<>>
            ELSE CASE lg[k].ev = "call" -> Append(O[k - 1], k)
                   [] lg[k].ev = "splice" -> SubSeq(O[k - 1], 1, Len(O[k - 1]) - 1)
                   [] OTHER -> O[k - 1]
    IN O

\* the body is a list of say, let and macro call statements: expanding it
\* opens no block and registers no macro
SimpleBody(body) == \A k \in DOMAIN body : body[k].kind \in {"Say", "Assign", "MacroCall"}

\* C27: a MacroCall in the body of a macro M is resolved against the scope
\* stack in force where M is called, when M is expanded, not where M was
\* defined: it resolves to the innermost definition visible at that call
\* site, and ends in the undefined-macro error when that site sees none.
C27_CallSiteScope ==
    LET lg == log[1]
        R == ScopeAfter(lg)
        O == OpenCalls(lg)
    IN \A k \in DOMAIN lg :
          (lg[k].ev = "call" /\ O[k - 1] # <<>>) =>
              LET site == O[k - 1][Len(O[k - 1])]
                  seen == FramesWith(lg[k].name, R[site - 1])
              IN SimpleBody(lg[site].macro.body) =>
                    /\ lg[k].stack = R[site - 1]
                    /\ seen # {} => lg[k].macro = Innermost(lg[k].name, R[site - 1])
                    /\ seen = {} => /\ lg[k].macro = NoneVal
                                    /\ pc[1] = "raised" /\ status[1] = "undefined"

\* M, defined at the top level where no h exists, is expanded inside a block
\* that defines h, and then fails at the top level
C27_Witness ==
    /\ input[1].statements = <<CallPool[1], CallPool[3], CallPool[4]>>
    /\ pc[1] = "raised" /\ status[1] = "undefined"
    /\ \E i, j \in DOMAIN log[1] :
          /\ i < j
          /\ log[1][i].ev = "splice" /\ log[1][i].name = "M"
          /\ log[1][i].res = <<Say(LiteralInt(2))>>
          /\ log[1][j].ev = "call" /\ log[1][j].name = "h" /\ log[1][j].macro = NoneVal
          /\ OpenCalls(log[1])[j - 1] # <<>>

RECURSIVE Simultaneous(_, _)
\* the expression with every parameter replaced by its argument and every
\* other renamed name by its fresh name, in one pass: what is inserted is
\* not looked at again
Simultaneous(expr, e) ==
    CASE expr.kind = "NameExpr" ->
            IF \E i \in DOMAIN e.macro.params : e.macro.params[i] = expr.id
            THEN e.args[CHOOSE i \in DOMAIN e.macro.params : e.macro.params[i] = expr.id]
            ELSE IF expr.id \in DOMAIN e.rename_map THEN NameExpr(e.rename_map[expr.id])
            ELSE expr
      [] expr.kind = "BinaryOp" ->
            BinaryOp(expr.op, Simultaneous(expr.left, e), Simultaneous(expr.right, e))
      [] OTHER -> expr

\* C28: parameter substitution is simultaneous and single-pass: for a call
\* with an argument for each parameter, the spliced statements are the
\* body's with each parameter replaced by its argument as written, an
\* argument that names another parameter, or a name the body binds,
\* included: arguments are neither substituted nor renamed.
C28_SimultaneousSubstitution ==
    \A k \in Splices(log[1]) :
        LET e == log[1][k]
            Expected(s) ==
                IF s.kind = "Say" THEN Say(Simultaneous(s.text, e))
                ELSE Assign(IF s.name \in DOMAIN e.rename_map THEN e.rename_map[s.name]
                            ELSE s.name,
                            Simultaneous(s.value, e))
        IN (Len(e.args) = Len(e.macro.params) /\ ~AnyMacroNode(e.macro.body)
                /\ SimpleBody(e.macro.body)) =>
              e.res = [j \in DOMAIN e.macro.body |-> Expected(e.macro.body[j])]

\* m(x, y) called with (y, x + t), where the body binds t
C28_Witness ==
    /\ pc[1] = "returned"
    /\ input[1].statements = <<CallPool[5], CallPool[6]>>
    /\ result[1].statements =
          <<Say(NameExpr("y")),
            Say(BinaryOp("-", BinaryOp("+", NameExpr("x"), NameExpr("t")), NameExpr("y"))),
            Assign("__ms_macro_t_1", NameExpr("y"))>>

\* C29: an arity mismatch is never an error.  A call with fewer or more
\* arguments than parameters is spliced like any other: each occurrence of
\* a parameter without an argument stays as a NameExpr of the parameter's
\* name, an argument beyond the last parameter appears nowhere, and the
\* expansion goes on.
C29_ArityMismatch ==
    LET lg == log[1]
        Plain(m) == ~AnyMacroNode(m.body) /\ SimpleBody(m.body)
    IN
    /\ \A k \in DOMAIN lg :
          (lg[k].ev = "call" /\ lg[k].macro # NoneVal /\ Plain(lg[k].macro)) =>
              /\ k + 1 \in DOMAIN lg
              /\ lg[k + 1].ev = "splice" /\ lg[k + 1].macro = lg[k].macro
              /\ Len(lg[k + 1].res) = Len(lg[k].macro.body)
    /\ \A k \in Splices(lg) :
          LET e == lg[k]
              params == e.macro.params
              given == {i \in DOMAIN params : i <= Len(e.args)}
              FromArguments(target) ==
                  LET Sum[i \in 0..Len(params)] ==
                          IF i = 0 THEN 0
                          ELSE Sum[i - 1]
                               + (IF i \in given
                                  THEN OccurrencesIn(e.macro.body, NameExpr(params[i]))
                                           * Occurrences(e.args[i], target)
                                  ELSE 0)
                  IN Sum[Len(params)]
          IN (Plain(e.macro) /\ Len(e.args) # Len(params)) =>
                /\ \A i \in DOMAIN params \ given :
                       OccurrencesIn(e.res, NameExpr(params[i]))
                           = OccurrencesIn(e.macro.body, NameExpr(params[i]))
                                 + FromArguments(NameExpr(params[i]))
                /\ \A j \in DOMAIN e.args \ DOMAIN params :
                       OccurrencesIn(e.res, e.args[j])
                           = OccurrencesIn(e.macro.body, e.args[j]) + FromArguments(e.args[j])

\* m(x, y) called with one argument and then with three
C29_Witness ==
    /\ pc[1] = "returned"
    /\ input[1].statements = <<CallPool[5], CallPool[7], CallPool[8]>>
    /\ result[1].statements =
          <<Say(NameExpr("t")), Say(BinaryOp("-", NameExpr("y"), NameExpr("t"))),
            Assign("__ms_macro_t_1", NameExpr("t")),
            Say(LiteralInt(1)),
            Say(BinaryOp("-", BinaryOp("+", NameExpr("t"), NameExpr("y")), LiteralInt(1))),
            Assign("__ms_macro_t_2", LiteralInt(1))>>

====
